---- MODULE Spec2Model ----
(***************************************************************************)
(* Model of the cluster task router of cluster-execution-mcp               *)
(* (src/src/cluster_execution_mcp/router.py and config.py): command        *)
(* validation, requirement filtering and scoring of nodes, the task store  *)
(* (table task_queue) and the local and remote executors.                  *)
(*                                                                         *)
(* Python strings are TLA+ strings; str.lower, str.strip, `in` on strings  *)
(* and shlex.split are computed character by character.  The outcome of a  *)
(* spawned process, of address resolution and of a remote copy is an input *)
(* of the action that spawns it.  The store is sqlite with one connection  *)
(* per operation; its statements are taken to succeed.                     *)
(***************************************************************************)
EXTENDS Integers, Sequences, FiniteSets, TLC

VARIABLES
    local_node_id,  \* DistributedTaskRouter.local_node_id
    priority,       \* ClusterNode.priority of every configured node
    rows,           \* table task_queue: task_id -> row
    next_id,        \* number of task identifiers minted so far (uuid4 is fresh)
    clock,          \* time.time(), advancing with every operation
    last,           \* the last call of a router operation and what it did
    routed,         \* the last direct call of _route_task: its task and its result
    _ip_cache,      \* hostname -> (ip, timestamp)
    fallback_ip,    \* ClusterNode.fallback_ip of every node, as configured
    running         \* the call in flight: its coroutines or its polling loop

vars == <<local_node_id, priority, rows, next_id, clock, last, routed, _ip_cache, fallback_ip, running>>

\* ------------------------------------------------------------------ bounds
MaxTasks == 1
MaxClock == 2
MaxPriority == 6
\* the longest command list given to parallel_execute
MaxCommands == 2
\* config.ip_cache_ttl (300 seconds as shipped), on the scale of the clock
ip_cache_ttl == 2

\* ------------------------------------------------------------- Python values
None == "<None>"
NoneList == <<"<None>">>

TruthyStr(s) == s # None /\ s # ""
TruthyList(l) == l # NoneList /\ l # <<>>

UpperAlpha == "ABCDEFGHIJKLMNOPQRSTUVWXYZ"
LowerAlpha == "abcdefghijklmnopqrstuvwxyz"

CharAt(s, i) == SubSeq(s, i, i)

UpperChars == {CharAt(UpperAlpha, i) : i \in 1..Len(UpperAlpha)}

ToLower ==
    [c \in UpperChars |->
        CharAt(LowerAlpha, CHOOSE i \in 1..Len(UpperAlpha) : CharAt(UpperAlpha, i) = c)]

LowerChar(c) == IF c \in UpperChars THEN ToLower[c] ELSE c

RECURSIVE lower(_)
lower(s) == IF Len(s) = 0 THEN "" ELSE LowerChar(CharAt(s, 1)) \o lower(SubSeq(s, 2, Len(s)))

\* p in s, for strings
Contains(s, p) == \E i \in 1..(Len(s) - Len(p) + 1) : SubSeq(s, i, i + Len(p) - 1) = p

Whitespace == {" ", "\t", "\n", "\r"}

\* s.strip() == ""
StripIsEmpty(s) == \A i \in 1..Len(s) : CharAt(s, i) \in Whitespace

SeqToSet(q) == {q[i] : i \in 1..Len(q)}

\* --------------------------------------------------------- cluster topology
NodeOrder == <<"macpro51", "mac-studio", "macbook-air">>

CLUSTER_NODES == SeqToSet(NodeOrder)

NodeOs(n) ==
    CASE n = "macpro51" -> "linux"
      [] n = "mac-studio" -> "macos"
      [] n = "macbook-air" -> "macos"

NodeArch(n) ==
    CASE n = "macpro51" -> "x86_64"
      [] n = "mac-studio" -> "arm64"
      [] n = "macbook-air" -> "arm64"

NodeCapabilities(n) ==
    CASE n = "macpro51" -> {"docker", "podman", "raid", "nvme", "compilation", "testing", "tpu", "ollama"}
      [] n = "mac-studio" -> {"orchestration", "coordination", "temporal", "mlx-gpu", "arduino", "qdrant"}
      [] n = "macbook-air" -> {"research", "documentation", "analysis", "mobile"}

NodeSpecialties(n) ==
    CASE n = "macpro51" -> {"compilation", "testing", "containerization", "benchmarking", "linux-builds"}
      [] n = "mac-studio" -> {"orchestration", "coordination", "monitoring", "temporal-workflows"}
      [] n = "macbook-air" -> {"research", "documentation", "analysis", "mobile-operations"}

ShippedPriority ==
    [n \in CLUSTER_NODES |->
        CASE n = "macpro51" -> 3
          [] n = "mac-studio" -> 1
          [] n = "macbook-air" -> 2]

NODE_ALIASES ==
    [a \in {"builder", "orchestrator", "researcher", "macpro51", "mac-studio",
            "macbook-air", "linux", "studio", "air"} |->
        CASE a \in {"builder", "macpro51", "linux"} -> "macpro51"
          [] a \in {"orchestrator", "mac-studio", "studio"} -> "mac-studio"
          [] a \in {"researcher", "macbook-air", "air"} -> "macbook-air"]

resolve_node_id(node_id) ==
    IF lower(node_id) \in DOMAIN NODE_ALIASES THEN NODE_ALIASES[lower(node_id)] ELSE node_id

\* the node a name denotes, or None
get_node(node_id) ==
    IF node_id \in CLUSTER_NODES THEN node_id
    ELSE IF resolve_node_id(node_id) \in CLUSTER_NODES THEN resolve_node_id(node_id)
    ELSE None

\* every value _detect_local_node can return
LocalNodeIds == CLUSTER_NODES \cup {"orchestrator", "builder"}

\* --------------------------------------------------------- command policy
dangerous_patterns ==
    <<"rm -rf /", "rm -rf /*", "> /dev/sda", "dd if=/dev/zero of=/dev/", ":(){ :|:& };:">>

\* validate_command matching the patterns against the command as typed,
\* without lowering it
validate_command_cased(command) ==
    /\ command # ""
    /\ ~StripIsEmpty(command)
    /\ \A k \in 1..Len(dangerous_patterns) : ~Contains(command, dangerous_patterns[k])

\* validate_command(command)[0]
validate_command(command) ==
    /\ command # ""
    /\ ~StripIsEmpty(command)
    /\ \A k \in 1..Len(dangerous_patterns) :
          ~Contains(lower(command), lower(dangerous_patterns[k]))

\* ------------------------------------------------------------------ routing
\* matches_requirements comparing the required os as typed, without lowering it
matches_requirements_cased(n, requires_os, requires_arch, requires_capabilities) ==
    /\ TruthyStr(requires_os) =>
          LET required == IF requires_os = "darwin" THEN "macos" ELSE requires_os
          IN  lower(NodeOs(n)) = required
    /\ TruthyStr(requires_arch) => lower(NodeArch(n)) = lower(requires_arch)
    /\ TruthyList(requires_capabilities) =>
          {lower(c) : c \in SeqToSet(requires_capabilities)}
              \subseteq {lower(c) : c \in NodeCapabilities(n)}

matches_requirements(n, requires_os, requires_arch, requires_capabilities) ==
    /\ TruthyStr(requires_os) =>
          LET required == IF lower(requires_os) = "darwin" THEN "macos" ELSE lower(requires_os)
          IN  lower(NodeOs(n)) = required
    /\ TruthyStr(requires_arch) => lower(NodeArch(n)) = lower(requires_arch)
    /\ TruthyList(requires_capabilities) =>
          {lower(c) : c \in SeqToSet(requires_capabilities)}
              \subseteq {lower(c) : c \in NodeCapabilities(n)}

\* the score without the penalty of the local node
Score_nopenalty(n, task, prio, local) ==
    (IF task.task_type \in NodeSpecialties(n) THEN 100 ELSE 0)
    + (5 - prio[n]) * 20

\* the score with a specialty worth no more than one priority step
Score_weakspecialty(n, task, prio, local) ==
    (IF task.task_type \in NodeSpecialties(n) THEN 20 ELSE 0)
    + (5 - prio[n]) * 20
    - (IF n = local THEN 1000 ELSE 0)

\* the score _route_task gives a candidate
Score(n, task, prio, local) ==
    (IF task.task_type \in NodeSpecialties(n) THEN 100 ELSE 0)
    + (5 - prio[n]) * 20
    - (IF n = local THEN 1000 ELSE 0)

\* candidates, in the iteration order of CLUSTER_NODES
RECURSIVE CandidatesFrom(_, _, _, _)
CandidatesFrom(k, task, prio, local) ==
    IF k > Len(NodeOrder) THEN <<>>
    ELSE LET n == NodeOrder[k]
             rest == CandidatesFrom(k + 1, task, prio, local)
         IN  IF matches_requirements(n, task.requires_os, task.requires_arch,
                                     task.requires_capabilities)
             THEN <<[node |-> n, score |-> Score(n, task, prio, local)]>> \o rest
             ELSE rest

\* an insertion that puts a candidate before the candidates of equal score:
\* a sort that is not stable
RECURSIVE InsertDesc_unstable(_, _)
InsertDesc_unstable(sorted, c) ==
    IF sorted = <<>> THEN <<c>>
    ELSE IF Head(sorted).score > c.score
         THEN <<Head(sorted)>> \o InsertDesc_unstable(Tail(sorted), c)
         ELSE <<c>> \o sorted

\* list.sort(key=score, reverse=True): stable, equal scores keep their order
RECURSIVE InsertDesc(_, _)
InsertDesc(sorted, c) ==
    IF sorted = <<>> THEN <<c>>
    ELSE IF Head(sorted).score >= c.score
         THEN <<Head(sorted)>> \o InsertDesc(Tail(sorted), c)
         ELSE <<c>> \o sorted

RECURSIVE SortDesc(_)
SortDesc(cands) ==
    IF cands = <<>> THEN <<>>
    ELSE InsertDesc(SortDesc(SubSeq(cands, 1, Len(cands) - 1)), cands[Len(cands)])

_route_task(task, prio, local) ==
    LET candidates == CandidatesFrom(1, task, prio, local)
    IN  IF candidates = <<>> THEN local
        ELSE SortDesc(candidates)[1].node

\* ----------------------------------------------------------------- executor
\* the operators that make _execute_local hand the command to a shell (the
\* source's list also has the backquote, which no command of the model contains)
ShellOperators == <<"|", "&&", "||", ";", "$(">>

UsesShell(command) == \E k \in 1..Len(ShellOperators) : Contains(command, ShellOperators[k])

\* the state of shlex's scanner after the characters i.. of s
RECURSIVE ShlexEnd(_, _, _)
ShlexEnd(s, i, st) ==
    IF i > Len(s) THEN st
    ELSE LET c == CharAt(s, i)
             nxt == CASE st = "none" ->
                            (IF c = "\\" THEN "esc"
                             ELSE IF c = "'" THEN "sq"
                             ELSE IF c = "\"" THEN "dq"
                             ELSE "none")
                      [] st = "esc" -> "none"
                      [] st = "sq" -> (IF c = "'" THEN "none" ELSE "sq")
                      [] st = "dq" ->
                            (IF c = "\"" THEN "none"
                             ELSE IF c = "\\" THEN "dqesc"
                             ELSE "dq")
                      [] st = "dqesc" -> "dq"
         IN  ShlexEnd(s, i + 1, nxt)

\* shlex.split(command): "ValueError" (no closing quotation, no escaped
\* character), "empty" (no word at all) or "words"
shlex_split(command) ==
    IF ShlexEnd(command, 1, "none") # "none" THEN "ValueError"
    ELSE IF StripIsEmpty(command) THEN "empty"
    ELSE "words"

\* what one call of an executor did: the _update_task_result calls it made, in
\* order, the exception that left it (None: it returned), the processes it spawned
Did(upd, exc, spawned) == [upd |-> upd, exc |-> exc, spawned |-> spawned]

Update(status, result, error) == [status |-> status, result |-> result, error |-> error]

\* subprocess.run with a non-zero exit code treated as a failure of the task
RunOutcome_nonzero_failed(proc, timeoutMsg, spawned) ==
    CASE proc = "exit0" -> Did(<<Update("completed", "stdout", None)>>, None, spawned)
      [] proc = "exit_nonzero" -> Did(<<Update("failed", "stdout", "stderr")>>, None, spawned)
      [] proc = "timeout" -> Did(<<Update("timeout", None, timeoutMsg)>>, None, spawned)
      [] proc = "oserror" -> Did(<<Update("failed", None, "str(e)")>>, None, spawned)
      [] proc = "ssh_fail" -> Did(<<Update("completed", "", "ssh stderr")>>, None, spawned)

\* subprocess.run(..., timeout=config.command_timeout) and the except clauses
\* around it; proc is what the process did
RunOutcome(proc, timeoutMsg, spawned) ==
    CASE proc = "exit0" -> Did(<<Update("completed", "stdout", None)>>, None, spawned)
      [] proc = "exit_nonzero" -> Did(<<Update("completed", "stdout", "stderr")>>, None, spawned)
      [] proc = "timeout" -> Did(<<Update("timeout", None, timeoutMsg)>>, None, spawned)
      [] proc = "oserror" -> Did(<<Update("failed", None, "str(e)")>>, None, spawned)
      [] proc = "ssh_fail" -> Did(<<Update("completed", "", "ssh stderr")>>, None, spawned)

ProcOutcomes == {"exit0", "exit_nonzero", "timeout", "oserror"}

\* _execute_local with the tokenizer's error swallowed: it returns without an update
_execute_local_swallow(task, env) ==
    IF TruthyStr(task.command)
    THEN IF UsesShell(task.command)
         THEN RunOutcome(env.proc, "Command timed out", 1)
         ELSE CASE shlex_split(task.command) = "ValueError" -> Did(<<>>, None, 0)
                [] shlex_split(task.command) = "empty" -> Did(<<>>, "IndexError", 0)
                [] OTHER -> RunOutcome(env.proc, "Command timed out", 1)
    ELSE IF TruthyStr(task.script)
    THEN RunOutcome(env.proc, "Command timed out", 1)
    ELSE Did(<<Update("completed", "No command or script provided", None)>>, None, 0)

\* _execute_local recording a task without command and script as failed
_execute_local_nocommand_failed(task, env) ==
    IF TruthyStr(task.command)
    THEN IF UsesShell(task.command)
         THEN RunOutcome(env.proc, "Command timed out", 1)
         ELSE CASE shlex_split(task.command) = "ValueError" -> Did(<<>>, "ValueError", 0)
                [] shlex_split(task.command) = "empty" -> Did(<<>>, "IndexError", 0)
                [] OTHER -> RunOutcome(env.proc, "Command timed out", 1)
    ELSE IF TruthyStr(task.script)
    THEN RunOutcome(env.proc, "Command timed out", 1)
    ELSE Did(<<Update("failed", None, "No command or script provided")>>, None, 0)

_execute_local(task, env) ==
    IF TruthyStr(task.command)
    THEN IF UsesShell(task.command)
         THEN RunOutcome(env.proc, "Command timed out", 1)
         ELSE CASE shlex_split(task.command) = "ValueError" -> Did(<<>>, "ValueError", 0)
                [] shlex_split(task.command) = "empty" -> Did(<<>>, "IndexError", 0)
                [] OTHER -> RunOutcome(env.proc, "Command timed out", 1)
    ELSE IF TruthyStr(task.script)
    THEN RunOutcome(env.proc, "Command timed out", 1)
    ELSE Did(<<Update("completed", "No command or script provided", None)>>, None, 0)

\* _execute_remote going on to the remote-shell client without an address
_execute_remote_unresolved_runs(task, target_node, env) ==
    IF get_node(target_node) = None
    THEN Did(<<Update("failed", None, "Unknown target node: " \o target_node)>>, None, 0)
    ELSE IF TruthyStr(task.command)
    THEN RunOutcome(env.proc, "Remote command timed out", 1)
    ELSE IF TruthyStr(task.script)
    THEN RunOutcome(env.proc, "Remote command timed out", 2)
    ELSE Did(<<Update("failed", None, "No command or script provided")>>, None, 0)

_execute_remote(task, target_node, env) ==
    IF get_node(target_node) = None
    THEN Did(<<Update("failed", None, "Unknown target node: " \o target_node)>>, None, 0)
    ELSE IF ~env.resolved
    THEN Did(<<Update("failed", None, "Cannot resolve IP for node: " \o target_node)>>, None, 0)
    ELSE IF TruthyStr(task.command)
    THEN RunOutcome(env.proc, "Remote command timed out", 1)
    ELSE IF TruthyStr(task.script)
    THEN CASE env.scp = "fail" ->
                    Did(<<Update("failed", None, "SCP failed: " \o "scp stderr")>>, None, 1)
           [] env.scp = "timeout" -> Did(<<Update("timeout", None, "Remote command timed out")>>, None, 1)
           [] OTHER -> RunOutcome(env.proc, "Remote command timed out", 2)
    ELSE Did(<<Update("failed", None, "No command or script provided")>>, None, 0)

\* ------------------------------------ the executors of distributed_task_router.py
\* the node registry of the older router
LegacyNodes == {"builder", "orchestrator", "researcher", "inference"}

\* json.dumps({"stdout": ..., "stderr": ..., "return_code": ...})
result_json(stdout, stderr, return_code) ==
    "{\"stdout\": \"" \o stdout \o "\", \"stderr\": \"" \o stderr
        \o "\", \"return_code\": " \o return_code \o "}"

\* subprocess.run(..., timeout=300) of the older router and its `except Exception`
LegacyRunOutcome(proc, spawned) ==
    CASE proc = "exit0" ->
            Did(<<Update("completed", result_json("stdout", "", "0"), None)>>, None, spawned)
      [] proc = "exit_nonzero" ->
            Did(<<Update("completed", result_json("stdout", "stderr", "3"), "stderr")>>,
                None, spawned)
      [] proc = "ssh_fail" ->
            Did(<<Update("completed", result_json("", "ssh stderr", "255"), "ssh stderr")>>,
                None, spawned)
      [] proc = "timeout" ->
            Did(<<Update("failed", None, "Command timed out after 300 seconds")>>, None, spawned)
      [] proc = "oserror" -> Did(<<Update("failed", None, "str(e)")>>, None, spawned)

\* _execute_local of the older router: every command goes to the shell
legacy_execute_local(task, env) ==
    IF TruthyStr(task.command) \/ TruthyStr(task.script)
    THEN LegacyRunOutcome(env.proc, 1)
    ELSE Did(<<Update("completed", result_json("No command or script provided", "", "-1"),
                      None)>>, None, 0)

\* _execute_remote of the older router: the copy's result is not looked at
legacy_execute_remote(task, target_node, env) ==
    IF target_node \notin LegacyNodes
    THEN Did(<<>>, "KeyError", 0)
    ELSE IF ~env.resolved
    THEN Did(<<Update("failed", None, "Cannot resolve IP for node: " \o target_node)>>, None, 0)
    ELSE IF TruthyStr(task.command)
    THEN LegacyRunOutcome(env.proc, 1)
    ELSE IF TruthyStr(task.script)
    THEN LegacyRunOutcome(env.proc, 2)
    ELSE Did(<<Update("failed", None, "No command or script")>>, None, 0)

\* ------------------------------------------- the files of a script task
\* whether the two files of a script task exist when the executor returns: the
\* file tempfile.NamedTemporaryFile(delete=False) created on this host, and
\* /tmp/task_<task id>.sh on the peer
Files(local, remote) == [local |-> local, remote |-> remote]

\* the task takes the branch `elif task.script`
RunsScript(task) == ~TruthyStr(task.command) /\ TruthyStr(task.script)

\* the script on the peer after the remote shell was given
\* chmod +x f && f && rm f: rm runs when the script has exited 0
remote_script_left(proc) == proc # "exit0"

\* _execute_local: os.unlink(script_path) in the finally clause
execute_local_files(task, env) ==
    IF RunsScript(task)
    THEN LET created == TRUE
             unlinked == TRUE
         IN  Files(created /\ ~unlinked, FALSE)
    ELSE Files(FALSE, FALSE)

\* _execute_remote: os.unlink(local_script) in the finally clause around the
\* copy and the remote shell
execute_remote_files(task, target_node, env) ==
    IF get_node(target_node) = None \/ ~env.resolved \/ ~RunsScript(task)
    THEN Files(FALSE, FALSE)
    ELSE LET created == TRUE
             unlinked == TRUE
             copied == env.scp = "ok"
         IN  Files(created /\ ~unlinked, copied /\ remote_script_left(env.proc))

\* _execute_local of the older router: os.unlink(script_path) is the last
\* statement after subprocess.run, skipped when subprocess.run raises
legacy_execute_local_files(task, env) ==
    IF RunsScript(task)
    THEN LET created == TRUE
             unlinked == env.proc \notin {"timeout", "oserror"}
         IN  Files(created /\ ~unlinked, FALSE)
    ELSE Files(FALSE, FALSE)

\* _execute_remote of the older router: os.unlink(local_script) follows the
\* copy, whose result is not looked at
legacy_execute_remote_files(task, target_node, env) ==
    IF target_node \notin LegacyNodes \/ ~env.resolved \/ ~RunsScript(task)
    THEN Files(FALSE, FALSE)
    ELSE Files(FALSE, env.scp = "ok" /\ remote_script_left(env.proc))

\* what the world does during one call: every outcome of the process with the
\* address resolved and the copy done, and each failure before the process
Envs ==
    {[proc |-> p, resolved |-> TRUE, scp |-> "ok"] : p \in ProcOutcomes}
    \cup {[proc |-> "exit0", resolved |-> FALSE, scp |-> "ok"],
          [proc |-> "exit0", resolved |-> TRUE, scp |-> "fail"],
          [proc |-> "exit0", resolved |-> TRUE, scp |-> "timeout"]}

\* --------------------------------------------------------------- task store
NoRow == [status |-> "absent"]

TerminalStatuses == {"completed", "failed", "timeout", "cancelled"}

\* UPDATE task_queue SET status, result, error, completed_at WHERE task_id = ?
_update_task_result(store, task_id, u, now) ==
    IF store[task_id] = NoRow THEN store
    ELSE [store EXCEPT ![task_id] =
             [@ EXCEPT !.status = u.status, !.result = u.result,
                       !.error = u.error, !.completed_at = now]]

\* _store_task inserting the row as pending, to be assigned later
_store_task_pending(store, task_id, task, target_node) ==
    [store EXCEPT ![task_id] =
        [status |-> "pending", command |-> task.command, script |-> task.script,
         assigned_to |-> None, result |-> None, error |-> None,
         completed_at |-> 0]]

\* INSERT INTO task_queue (...) VALUES (..., target_node, time.time(), 'assigned')
_store_task(store, task_id, task, target_node) ==
    [store EXCEPT ![task_id] =
        [status |-> "assigned", command |-> task.command, script |-> task.script,
         assigned_to |-> target_node, result |-> None, error |-> None,
         completed_at |-> 0]]

RECURSIVE ApplyUpdates(_, _, _, _)
ApplyUpdates(store, task_id, upd, now) ==
    IF upd = <<>> THEN store
    ELSE ApplyUpdates(_update_task_result(store, task_id, Head(upd), now), task_id, Tail(upd), now)

\* ------------------------------------------------------- address resolution
\* s.startswith(p), s.endswith(p)
startswith(s, p) == Len(s) >= Len(p) /\ SubSeq(s, 1, Len(p)) = p

endswith(s, p) == Len(s) >= Len(p) /\ SubSeq(s, Len(s) - Len(p) + 1, Len(s)) = p

\* s.split('.'): the pieces between the dots, empty pieces included
RECURSIVE SplitDots(_, _, _)
SplitDots(s, i, piece) ==
    IF i > Len(s) THEN <<piece>>
    ELSE IF CharAt(s, i) = "." THEN <<piece>> \o SplitDots(s, i + 1, "")
    ELSE SplitDots(s, i + 1, piece \o CharAt(s, i))

split(s) == SplitDots(s, 1, "")

Digits == "0123456789"

DigitChars == {CharAt(Digits, i) : i \in 1..Len(Digits)}

DigitValue == [c \in DigitChars |-> (CHOOSE i \in 1..Len(Digits) : CharAt(Digits, i) = c) - 1]

\* int(s) raises ValueError: for the strings of the model (digits, dots,
\* letters), whenever s is not a non-empty run of decimal digits
IntRaises(s) == Len(s) = 0 \/ \E i \in 1..Len(s) : CharAt(s, i) \notin DigitChars

\* int(s) of a run of decimal digits
RECURSIVE IntFrom(_, _, _)
IntFrom(s, i, acc) ==
    IF i > Len(s) THEN acc ELSE IntFrom(s, i + 1, acc * 10 + DigitValue[CharAt(s, i)])

int(s) == IntFrom(s, 1, 0)

\* validate_ip(ip)
validate_ip(ip) ==
    LET parts == split(ip)
    IN  /\ TruthyStr(ip)
        /\ ~startswith(ip, "127.")
        /\ startswith(ip, "172.")
              => /\ Len(parts) >= 2
                 /\ ~IntRaises(parts[2])
                 /\ ~(16 <= int(parts[2]) /\ int(parts[2]) <= 31)
        /\ ~startswith(ip, "169.254.")
        /\ ~startswith(ip, "10.0.")
        /\ Len(parts) = 4
        /\ \A k \in 1..Len(parts) : ~IntRaises(parts[k]) /\ int(parts[k]) <= 255

\* every address that a resolution method, the local interface or the
\* configuration gives in the model
Addresses ==
    {"192.168.1.27", "192.168.1.16", "192.168.1.76", "192.168.1.50", "10.0.0.27", "",
     "127.0.1.1", "172.17.0.1", "172.17.0.2"}

\* validate_ip, evaluated once for every address of the model
ValidAddresses == {a \in Addresses : validate_ip(a)}

PassesFilter(ip) == ip \in ValidAddresses

\* ClusterNode.hostname and the shipped ClusterNode.fallback_ip
NodeHostname == [n \in CLUSTER_NODES |-> n \o ".local"]

ShippedFallback ==
    [n \in CLUSTER_NODES |->
        CASE n = "macpro51" -> "192.168.1.27"
          [] n = "mac-studio" -> "192.168.1.16"
          [] n = "macbook-air" -> "192.168.1.76"]

\* the entry of hostname in the cache, None without one
CacheEntry(cache, hostname) == IF hostname \in DOMAIN cache THEN cache[hostname] ELSE None

\* _ip_cache[hostname] = (ip, now)
CachePut(cache, hostname, ip, now) ==
    [h \in DOMAIN cache \cup {hostname} |-> IF h = hostname THEN <<ip, now>> ELSE cache[h]]

\* the four resolution methods in the order resolve_hostname tries them
ResolveMethods == <<"gethostbyname", "avahi-resolve", "getent", "ping">>

\* what the methods answer for hostname in the world e (None: the method fails);
\* avahi-resolve is asked for .local names only
MethodAnswers(hostname, e) ==
    <<e.dns, IF endswith(hostname, ".local") THEN e.avahi ELSE None, e.getent, e.ping>>

MethodsAsked(hostname) ==
    {k \in 1..Len(ResolveMethods) : k = 2 => endswith(hostname, ".local")}

\* the result of a resolution: the address, the cache afterwards and the methods invoked
Resolution(ip, cache, invoked) == [ip |-> ip, cache |-> cache, invoked |-> invoked]

\* resolve_hostname answering from an entry whose age has just reached the TTL
resolve_hostname_stale(cache, hostname, now, e) ==
    IF hostname \in DOMAIN cache /\ now - cache[hostname][2] <= ip_cache_ttl
    THEN Resolution(cache[hostname][1], cache, {})
    ELSE LET answers == MethodAnswers(hostname, e)
             hits == {k \in MethodsAsked(hostname) :
                         answers[k] # None /\ PassesFilter(answers[k])}
         IN  IF hits = {}
             THEN Resolution(None, cache, {ResolveMethods[k] : k \in MethodsAsked(hostname)})
             ELSE LET first == CHOOSE k \in hits : \A j \in hits : k <= j
                  IN  Resolution(answers[first],
                                 CachePut(cache, hostname, answers[first], now),
                                 {ResolveMethods[k] : k \in {j \in MethodsAsked(hostname) : j <= first}})

\* resolve_hostname(hostname) at time now
resolve_hostname(cache, hostname, now, e) ==
    IF hostname \in DOMAIN cache /\ now - cache[hostname][2] < ip_cache_ttl
    THEN Resolution(cache[hostname][1], cache, {})
    ELSE LET answers == MethodAnswers(hostname, e)
             hits == {k \in MethodsAsked(hostname) :
                         answers[k] # None /\ PassesFilter(answers[k])}
         IN  IF hits = {}
             THEN Resolution(None, cache, {ResolveMethods[k] : k \in MethodsAsked(hostname)})
             ELSE LET first == CHOOSE k \in hits : \A j \in hits : k <= j
                  IN  Resolution(answers[first],
                                 CachePut(cache, hostname, answers[first], now),
                                 {ResolveMethods[k] : k \in {j \in MethodsAsked(hostname) : j <= first}})

\* get_local_lan_ip(): the routing table's answer, then the socket's
get_local_lan_ip(e) ==
    IF e.route # None /\ PassesFilter(e.route) THEN e.route
    ELSE IF e.sock # None /\ PassesFilter(e.sock) THEN e.sock
    ELSE None

\* verify_ssh_connectivity(ip): some attempt logged in
verify_ssh_connectivity(ip, e) == ip \in e.ssh_ok

\* the result of get_node_ip: the address, the cache afterwards and the addresses
\* for which verify_ssh_connectivity returned True during the call
NodeIp(ip, cache, verified) == [ip |-> ip, cache |-> cache, verified |-> verified]

\* get_node_ip(node_id, is_local, verify_ssh) at time now
get_node_ip(node_id, is_local, verify_ssh, cache, fallback, now, e) ==
    LET node == get_node(node_id)
    IN  IF node = None THEN NodeIp(None, cache, {})
        ELSE IF is_local /\ TruthyStr(get_local_lan_ip(e))
        THEN NodeIp(get_local_lan_ip(e), cache, {})
        ELSE LET r == resolve_hostname(cache, NodeHostname[node], now, e)
                 fallback_of_node == fallback[node]
             IN  IF verify_ssh /\ TruthyStr(fallback_of_node)
                 THEN IF verify_ssh_connectivity(fallback_of_node, e)
                      THEN NodeIp(fallback_of_node, cache, {fallback_of_node})
                      ELSE IF TruthyStr(r.ip) /\ r.ip # fallback_of_node
                                /\ verify_ssh_connectivity(r.ip, e)
                      THEN NodeIp(r.ip, r.cache, {r.ip})
                      ELSE NodeIp(None, r.cache, {})
                 ELSE IF TruthyStr(r.ip) THEN NodeIp(r.ip, r.cache, {})
                 ELSE NodeIp(fallback_of_node, r.cache, {})

\* --------------------------------------------------------------- the inputs
Commands ==
    {"echo hi", "sudo RM -rf /tmp/x", ":(){ :|:& };:", "", " \t", "echo \"hi", "make | tee log"}

Scripts == {None, "#!/bin/sh\nexit 3\n"}

\* the task_def dictionaries given to submit_task
TaskDefs ==
    {d \in [type : {"shell"}, command : Commands \cup {None}, script : Scripts,
            requires_os : {None, "windows"}, requires_arch : {None},
            requires_capabilities : {NoneList}, force_node : {None, "macbook-air"}] :
        /\ d.script # None => d.command = None
        /\ d.force_node # None => d.command = "echo hi" /\ d.requires_os = None}

\* Task(...) as submit_task builds it from task_def
TaskOf(task_def) ==
    [task_type |-> task_def.type, command |-> task_def.command, script |-> task_def.script,
     requires_os |-> task_def.requires_os, requires_arch |-> task_def.requires_arch,
     requires_capabilities |-> task_def.requires_capabilities]

\* the targets given to a direct call of _execute_remote
Targets == {"builder", "nowhere"}

\* the results given to a direct call of _update_task_result
DirectUpdates == {Update("failed", None, "str(e)")}

\* the tasks given to a direct call of _route_task
RouteTasks ==
    [task_type : {"shell", "compilation", "research"},
     requires_os : {None, "Linux", "darwin", "windows"},
     requires_arch : {None, "ARM64", "x86_64"},
     requires_capabilities : {NoneList, <<"Docker">>, <<"research", "Analysis">>}]

\* ------------------------------------------------------------------ the state
NoCall ==
    [op |-> "none", task_id |-> 0, outcome |-> "none", exc |-> None, upd |-> <<>>,
     spawned |-> 0, command |-> None, force_node |-> None, before |-> "absent"]

NoRoute == [called |-> FALSE]

NotRunning == [op |-> "none"]

TaskIds == 1..MaxTasks

InitStore ==
    /\ rows = [t \in TaskIds |-> NoRow]
    /\ next_id = 0
    /\ clock = 0
    /\ last = NoCall
    /\ routed = NoRoute
    /\ _ip_cache = << >>
    /\ fallback_ip = ShippedFallback
    /\ running = NotRunning

\* the router as constructed on any host of the shipped cluster
Init ==
    /\ local_node_id \in LocalNodeIds
    /\ priority = ShippedPriority
    /\ InitStore

\* the router over any priorities of the three nodes
InitRoute ==
    /\ local_node_id \in LocalNodeIds
    /\ priority \in [CLUSTER_NODES -> 1..MaxPriority]
    /\ InitStore

\* ---------------------------------------------------------------- operations
Outcome(did) == IF did.exc = None THEN "returned" ELSE "raised"

\* the target submit_task chooses
SubmitTarget(task_def) == _route_task(TaskOf(task_def), priority, local_node_id)

\* the executor submit_task dispatches to
Dispatch(task, target_node, env) ==
    IF target_node = local_node_id
    THEN _execute_local(task, env)
    ELSE _execute_remote(task, target_node, env)

\* submit_task(task_def)
SubmitTask(task_def, env) ==
    /\ next_id < MaxTasks
    /\ clock < MaxClock
    /\ LET task_id == next_id + 1
           task == TaskOf(task_def)
       IN  /\ next_id' = task_id
           /\ clock' = clock + 1
           /\ IF TruthyStr(task_def.command) /\ ~validate_command(task_def.command)
              THEN /\ rows' = rows
                   /\ last' = [op |-> "submit_task", task_id |-> task_id,
                               outcome |-> "raised", exc |-> "ValueError", upd |-> <<>>,
                               spawned |-> 0, command |-> task_def.command,
                               force_node |-> task_def.force_node,
                               before |-> rows[task_id].status]
              ELSE LET target_node == SubmitTarget(task_def)
                       stored == _store_task(rows, task_id, task, target_node)
                       did == Dispatch(task, target_node, env)
                   IN  /\ rows' = ApplyUpdates(stored, task_id, did.upd, clock + 1)
                       /\ last' = [op |-> "submit_task", task_id |-> task_id,
                                   outcome |-> Outcome(did), exc |-> did.exc,
                                   upd |-> did.upd, spawned |-> did.spawned,
                                   command |-> task_def.command,
                                   force_node |-> task_def.force_node,
                                   before |-> rows[task_id].status]
    /\ UNCHANGED <<local_node_id, priority, routed, _ip_cache, fallback_ip, running>>

\* the Task of a stored row
TaskOfRow(row) == [command |-> row.command, script |-> row.script]

\* a direct call _execute_local(task) for a stored task
ExecuteLocal(task_id, env) ==
    /\ clock < MaxClock
    /\ rows[task_id] # NoRow
    /\ clock' = clock + 1
    /\ LET did == _execute_local(TaskOfRow(rows[task_id]), env)
       IN  /\ rows' = ApplyUpdates(rows, task_id, did.upd, clock + 1)
           /\ last' = [op |-> "_execute_local", task_id |-> task_id,
                       outcome |-> Outcome(did), exc |-> did.exc, upd |-> did.upd,
                       spawned |-> did.spawned, command |-> rows[task_id].command,
                       force_node |-> None,
                       before |-> rows[task_id].status]
    /\ UNCHANGED <<local_node_id, priority, next_id, routed, _ip_cache, fallback_ip, running>>

\* a direct call _execute_remote(task, target_node) for a stored task
ExecuteRemote(task_id, target_node, env) ==
    /\ clock < MaxClock
    /\ rows[task_id] # NoRow
    /\ clock' = clock + 1
    /\ LET did == _execute_remote(TaskOfRow(rows[task_id]), target_node, env)
       IN  /\ rows' = ApplyUpdates(rows, task_id, did.upd, clock + 1)
           /\ last' = [op |-> "_execute_remote", task_id |-> task_id,
                       outcome |-> Outcome(did), exc |-> did.exc, upd |-> did.upd,
                       spawned |-> did.spawned, command |-> rows[task_id].command,
                       force_node |-> None,
                       before |-> rows[task_id].status]
    /\ UNCHANGED <<local_node_id, priority, next_id, routed, _ip_cache, fallback_ip, running>>

\* a direct call _update_task_result(task_id, status, result, error)
UpdateTaskResult(task_id, u) ==
    /\ clock < MaxClock
    /\ rows[task_id] # NoRow
    /\ clock' = clock + 1
    /\ rows' = _update_task_result(rows, task_id, u, clock + 1)
    /\ last' = [op |-> "_update_task_result", task_id |-> task_id, outcome |-> "returned",
                exc |-> None, upd |-> <<u>>, spawned |-> 0,
                command |-> rows[task_id].command, force_node |-> None,
                before |-> rows[task_id].status]
    /\ UNCHANGED <<local_node_id, priority, next_id, routed, _ip_cache, fallback_ip, running>>

\* a direct call _route_task(task)
RouteTask(task) ==
    /\ ~routed.called
    /\ routed' = [called |-> TRUE, task |-> task,
                  node |-> _route_task(task, priority, local_node_id)]
    /\ UNCHANGED <<local_node_id, priority, rows, next_id, clock, last, _ip_cache, fallback_ip, running>>

Next ==
    \/ \E task_def \in TaskDefs, env \in Envs : SubmitTask(task_def, env)
    \/ \E task_id \in TaskIds, env \in Envs : ExecuteLocal(task_id, env)
    \/ \E task_id \in TaskIds, target_node \in Targets, env \in Envs :
          ExecuteRemote(task_id, target_node, env)
    \/ \E task_id \in TaskIds, u \in DirectUpdates : UpdateTaskResult(task_id, u)

Spec == Init /\ [][Next]_vars

NextRoute == \E task \in RouteTasks : RouteTask(task)

SpecRoute == InitRoute /\ [][NextRoute]_vars

\* ======================================================================
\* Properties of the executor and of submit_task (specification Spec)
\* ======================================================================

ExecutorStatuses == {"completed", "failed", "timeout"}

\* the last call ran an executor on a row that was assigned: a direct call on an
\* assigned row, or the dispatch of a submit_task that stored its task
RanExecutorOnAssigned ==
    \/ last.op \in {"_execute_local", "_execute_remote"} /\ last.before = "assigned"
    \/ last.op = "submit_task" /\ rows[last.task_id] # NoRow

\* C1: one call of _execute_local or _execute_remote on a task with an assigned
\* row performs exactly one store update of that row, and the update sets a
\* terminal status (completed, failed or timeout), on every path.
C1_ExactlyOneTerminalUpdate ==
    RanExecutorOnAssigned =>
        /\ Len(last.upd) = 1
        /\ last.upd[1].status \in ExecutorStatuses
        /\ rows[last.task_id].status = last.upd[1].status

\* C2: once a task's stored status is terminal, no later operation changes its
\* status, result, error or completed_at.
C2_TerminalNeverChanges ==
    [][\A t \in TaskIds : rows[t].status \in TerminalStatuses => rows'[t] = rows[t]]_vars

ContainsBlocked(command) ==
    /\ command # None
    /\ \E k \in 1..Len(dangerous_patterns) :
          Contains(lower(command), lower(dangerous_patterns[k]))

\* C4: submit_task with a command that contains a pattern of the hard blocklist
\* raises the validation error; the rows of the store are the same after the
\* call as before it and no process is spawned.
C4_BlockedCommandRejected ==
    [][(last'.op = "submit_task" /\ ContainsBlocked(last'.command)) =>
           /\ rows' = rows
           /\ last'.outcome = "raised"
           /\ last'.exc = "ValueError"
           /\ last'.spawned = 0]_vars

C4_Witness ==
    /\ last.op = "submit_task"
    /\ ContainsBlocked(last.command)
    /\ last.command # lower(last.command)
    /\ last.outcome = "raised"
    /\ rows[last.task_id] = NoRow

\* the command is the empty string or consists only of whitespace
EmptyOrBlank(command) == command # None /\ StripIsEmpty(command)

\* C5: submit_task with a command that is empty or only whitespace raises,
\* writes no row to the store and runs no executor.
C5_EmptyCommandRejected ==
    (last.op = "submit_task" /\ EmptyOrBlank(last.command)) =>
        /\ last.outcome = "raised"
        /\ rows[last.task_id] = NoRow
        /\ last.upd = <<>>

\* C10: submit_task with a force_node that names a configured node stores
\* assigned_to = force_node.
C10_ForceNodeAssigned ==
    (last.op = "submit_task" /\ last.force_node \in CLUSTER_NODES
        /\ rows[last.task_id] # NoRow) =>
        rows[last.task_id].assigned_to = last.force_node

\* ======================================================================
\* Properties of _route_task (specification SpecRoute)
\* ======================================================================

\* the os a requirement means: lower case, darwin meaning macos
RequiredOs(requires_os) ==
    IF lower(requires_os) \in {"darwin", "macos"} THEN "macos" ELSE lower(requires_os)

\* node n is configured and satisfies every requirement the task states
Satisfies(n, task) ==
    /\ n \in CLUSTER_NODES
    /\ TruthyStr(task.requires_os) => NodeOs(n) = RequiredOs(task.requires_os)
    /\ TruthyStr(task.requires_arch) => NodeArch(n) = lower(task.requires_arch)
    /\ TruthyList(task.requires_capabilities) =>
          \A i \in 1..Len(task.requires_capabilities) :
              lower(task.requires_capabilities[i]) \in NodeCapabilities(n)

Feasible(task) == {n \in CLUSTER_NODES : Satisfies(n, task)}

Specialized(n, task) == n \in CLUSTER_NODES /\ task.task_type \in NodeSpecialties(n)

\* the score of the claim: 100 for a specialty, 20 per priority step under 5,
\* minus 1000 for the local node
ClaimScore(n, task) ==
    (IF Specialized(n, task) THEN 100 ELSE 0) + (5 - priority[n]) * 20
    - (IF n = local_node_id THEN 1000 ELSE 0)

Position(n) == CHOOSE k \in 1..Len(NodeOrder) : NodeOrder[k] = n

C7_AvoidsLocalNode ==
    (routed.called /\ Feasible(routed.task) \ {local_node_id} # {}) =>
        routed.node # local_node_id

C7_Witness ==
    /\ routed.called
    /\ local_node_id \in Feasible(routed.task)
    /\ Specialized(local_node_id, routed.task)
    /\ priority[local_node_id] = 1
    /\ routed.node # local_node_id
    /\ ~Specialized(routed.node, routed.task)
    /\ priority[routed.node] = MaxPriority

\* C8: _route_task returns a candidate of maximal score among the nodes that
\* pass the requirement filter, and among candidates of equal maximal score
\* the one that comes first in the configured node order.
C8_MaxScoreFirstInOrder ==
    (routed.called /\ Feasible(routed.task) # {}) =>
        /\ routed.node \in Feasible(routed.task)
        /\ \A m \in Feasible(routed.task) :
              /\ ClaimScore(routed.node, routed.task) >= ClaimScore(m, routed.task)
              /\ ClaimScore(routed.node, routed.task) = ClaimScore(m, routed.task)
                    => Position(routed.node) <= Position(m)

C8_Witness ==
    /\ routed.called
    /\ \E m \in Feasible(routed.task) :
          /\ m # routed.node
          /\ ClaimScore(m, routed.task) = ClaimScore(routed.node, routed.task)
          /\ Specialized(m, routed.task)
          /\ ~Specialized(routed.node, routed.task)

\* the specialized candidates other than the local node
SpecializedPeers(task) ==
    {n \in Feasible(task) \ {local_node_id} : Specialized(n, task)}

ExecTasks == [command : {None, "", "echo hi", "make | tee log"}, script : Scripts]

\* what the process does in a local execution
LocalEnvs == {[proc |-> p, resolved |-> TRUE, scp |-> "ok"] : p \in ProcOutcomes}

\* what the resolver, the copy and the remote-shell client do in a remote execution
RemoteEnvs ==
    [proc : ProcOutcomes \cup {"ssh_fail"}, resolved : BOOLEAN, scp : {"ok", "fail", "timeout"}]

\* the older router gives the copy no time limit
LegacyRemoteEnvs == {e \in RemoteEnvs : e.scp # "timeout"}

InitExec ==
    /\ local_node_id \in {"mac-studio"}
    /\ priority = ShippedPriority
    /\ \E tasks \in [TaskIds -> ExecTasks] :
          rows = [t \in TaskIds |-> _store_task([u \in TaskIds |-> NoRow], t, tasks[t], "builder")[t]]
    /\ next_id = MaxTasks
    /\ clock = 0
    /\ last = NoCall
    /\ routed = NoRoute
    /\ _ip_cache = << >>
    /\ fallback_ip = ShippedFallback
    /\ running = NotRunning

\* one call of an executor on a task that is still assigned
Executed(op, impl, task_id, target_node, env, did, files) ==
    /\ clock < MaxClock
    /\ rows[task_id].status = "assigned"
    /\ clock' = clock + 1
    /\ rows' = ApplyUpdates(rows, task_id, did.upd, clock + 1)
    /\ last' = [op |-> op, impl |-> impl, task_id |-> task_id,
                task |-> TaskOfRow(rows[task_id]), target_node |-> target_node,
                env |-> env, did |-> did, files |-> files]
    /\ UNCHANGED <<local_node_id, priority, next_id, routed, _ip_cache, fallback_ip, running>>

RouterExecuteLocal(task_id, env) ==
    Executed("_execute_local", "router", task_id, None, env,
             _execute_local(TaskOfRow(rows[task_id]), env),
             execute_local_files(TaskOfRow(rows[task_id]), env))

RouterExecuteRemote(task_id, target_node, env) ==
    Executed("_execute_remote", "router", task_id, target_node, env,
             _execute_remote(TaskOfRow(rows[task_id]), target_node, env),
             execute_remote_files(TaskOfRow(rows[task_id]), target_node, env))

LegacyExecuteLocal(task_id, env) ==
    Executed("_execute_local", "legacy", task_id, None, env,
             legacy_execute_local(TaskOfRow(rows[task_id]), env),
             legacy_execute_local_files(TaskOfRow(rows[task_id]), env))

LegacyExecuteRemote(task_id, target_node, env) ==
    Executed("_execute_remote", "legacy", task_id, target_node, env,
             legacy_execute_remote(TaskOfRow(rows[task_id]), target_node, env),
             legacy_execute_remote_files(TaskOfRow(rows[task_id]), target_node, env))

NextExec ==
    \/ \E task_id \in TaskIds, env \in LocalEnvs : RouterExecuteLocal(task_id, env)
    \/ \E task_id \in TaskIds, target_node \in Targets, env \in RemoteEnvs :
          RouterExecuteRemote(task_id, target_node, env)
    \/ \E task_id \in TaskIds, env \in LocalEnvs : LegacyExecuteLocal(task_id, env)
    \/ \E task_id \in TaskIds, target_node \in Targets, env \in LegacyRemoteEnvs :
          LegacyExecuteRemote(task_id, target_node, env)

SpecExec == InitExec /\ [][NextExec]_vars

\* ----------------------------------------------- properties of one execution
\* the last step was a call of an executor
ExecLast == last.op \in {"_execute_local", "_execute_remote"}

NeitherCommandNorScript(task) == ~TruthyStr(task.command) /\ ~TruthyStr(task.script)

\* the target of the last remote call is a node of the router that was called
KnownTarget ==
    IF last.impl = "router" THEN get_node(last.target_node) # None
    ELSE last.target_node \in LegacyNodes

\* the process that carries the user's command was started and came to an end
CommandRanAndExited ==
    /\ ExecLast
    /\ TruthyStr(last.task.command)
    /\ last.did.spawned = 1
    /\ last.env.proc \in {"exit0", "exit_nonzero"}

\* C11: a task that has neither a command nor a script ends in status failed and
\* no subprocess is spawned for it, on the local node as on a remote node
C11_NoCommandFailsEverywhere ==
    (ExecLast /\ last.impl = "router" /\ NeitherCommandNorScript(last.task))
        => /\ rows[last.task_id].status = "failed"
           /\ last.did.spawned = 0

\* C12: _execute_local of a task that has neither a command nor a script records
\* status completed, a result that contains 'No command or script', and no error
C12_LocalNoCommandCompleted ==
    (ExecLast /\ last.op = "_execute_local" /\ NeitherCommandNorScript(last.task))
        => /\ rows[last.task_id].status = "completed"
           /\ Contains(rows[last.task_id].result, "No command or script")
           /\ rows[last.task_id].error = None
           /\ last.did.spawned = 0

C12_Witness ==
    /\ ExecLast /\ last.impl = "router" /\ last.op = "_execute_local"
    /\ last.task.command = "" /\ last.task.script = None
    /\ rows[last.task_id].status = "completed"

\* C13: when the user command ran and exited, the task is recorded completed
\* whatever the exit code; the error field holds the command's stderr exactly
\* when the exit code is non-zero and is empty when it is 0
C13_ExitCodeNeverFails ==
    CommandRanAndExited
        => /\ rows[last.task_id].status = "completed"
           /\ (last.env.proc = "exit_nonzero" => rows[last.task_id].error = "stderr")
           /\ (last.env.proc = "exit0" => rows[last.task_id].error = None)

C13_Witness ==
    /\ CommandRanAndExited /\ last.impl = "router"
    /\ last.env.proc = "exit_nonzero"
    /\ rows[last.task_id].status = "completed"
    /\ rows[last.task_id].error = "stderr"

\* the process of the last call ran into its time limit
TimedOut ==
    /\ ExecLast
    /\ \/ last.did.spawned = 1 /\ (TruthyStr(last.task.command) \/ last.op = "_execute_local")
             /\ last.env.proc = "timeout"
       \/ last.did.spawned = 2 /\ last.env.proc = "timeout"
       \/ last.did.spawned = 1 /\ last.op = "_execute_remote"
             /\ ~TruthyStr(last.task.command) /\ last.env.scp = "timeout"

\* C14: when a local or a remote execution exceeds the command timeout, the
\* terminal status is timeout, the result is empty and the error field holds the
\* canned timed-out message
C14_TimeoutRecorded ==
    TimedOut
        => /\ rows[last.task_id].status = "timeout"
           /\ rows[last.task_id].result = None
           /\ rows[last.task_id].error
                 = (IF last.op = "_execute_local" THEN "Command timed out"
                    ELSE "Remote command timed out")

\* the remote-shell client failed before the user command ran, or the copy of
\* the script failed
TransportFailed ==
    /\ ExecLast /\ last.op = "_execute_remote" /\ last.impl = "router"
    /\ KnownTarget /\ last.env.resolved
    /\ \/ TruthyStr(last.task.command) /\ last.env.proc = "ssh_fail"
       \/ ~TruthyStr(last.task.command) /\ TruthyStr(last.task.script)
             /\ \/ last.env.scp = "fail"
                \/ last.env.scp = "ok" /\ last.env.proc = "ssh_fail"

\* C15: a failure of the remote-shell client before the user command runs, or of
\* the remote copy, is recorded failed with the transport's stderr as the error
C15_TransportFailureFails ==
    TransportFailed
        => /\ rows[last.task_id].status = "failed"
           /\ \/ Contains(rows[last.task_id].error, "ssh stderr")
              \/ Contains(rows[last.task_id].error, "scp stderr")

FallbackChoices == {"192.168.1.27", "10.0.0.27", ""}

\* what the four resolution methods answer
MethodWorlds ==
    {[dns |-> None, avahi |-> None, getent |-> None, ping |-> None],
     [dns |-> "192.168.1.50", avahi |-> None, getent |-> None, ping |-> None],
     [dns |-> "127.0.1.1", avahi |-> "192.168.1.50", getent |-> None, ping |-> None],
     [dns |-> "127.0.1.1", avahi |-> None, getent |-> "172.17.0.2", ping |-> None],
     [dns |-> None, avahi |-> None, getent |-> "192.168.1.50", ping |-> None],
     [dns |-> "127.0.1.1", avahi |-> None, getent |-> "172.17.0.2", ping |-> "192.168.1.50"],
     [dns |-> "192.168.1.27", avahi |-> None, getent |-> None, ping |-> None]}

\* what the routing table and the socket answer about the local interface
LocalWorlds ==
    {[route |-> None, sock |-> None],
     [route |-> "172.17.0.1", sock |-> "192.168.1.16"]}

\* the addresses that accept a shell login
SshWorlds == {{}, {"192.168.1.27", "10.0.0.27"}, {"192.168.1.50"}}

\* the world during one call of get_node_ip
ResolveEnvs ==
    {[dns |-> m.dns, avahi |-> m.avahi, getent |-> m.getent, ping |-> m.ping,
      route |-> l.route, sock |-> l.sock, ssh_ok |-> ok] :
        m \in MethodWorlds, l \in LocalWorlds, ok \in SshWorlds}

\* the world during one direct call of resolve_hostname
HostnameEnvs == {e \in ResolveEnvs : e.route = None /\ e.ssh_ok = {}}

\* the world during a call of get_node_ip for a name that is no node
UnknownNodeEnvs == {e \in ResolveEnvs : e.dns = None /\ e.ssh_ok = {}}

NodeIds == {"builder"}

UnknownNodeIds == {"nowhere"}

Hostnames == {"macpro51.local"}

InitResolve ==
    /\ local_node_id \in {"mac-studio"}
    /\ priority = ShippedPriority
    /\ rows = [t \in TaskIds |-> NoRow]
    /\ next_id = 0
    /\ clock = 0
    /\ last = NoCall
    /\ routed = NoRoute
    /\ _ip_cache = << >>
    /\ \E f \in FallbackChoices : fallback_ip = [ShippedFallback EXCEPT !["macpro51"] = f]
    /\ running = NotRunning

\* a call get_node_ip(node_id, is_local, verify_ssh)
GetNodeIp(node_id, is_local, verify_ssh, e) ==
    LET r == get_node_ip(node_id, is_local, verify_ssh, _ip_cache, fallback_ip, clock, e)
    IN  /\ _ip_cache' = r.cache
        /\ last' = [op |-> "get_node_ip", node_id |-> node_id, is_local |-> is_local,
                    verify_ssh |-> verify_ssh, ip |-> r.ip, verified |-> r.verified]
        /\ UNCHANGED <<local_node_id, priority, rows, next_id, clock, routed, fallback_ip, running>>

\* a call resolve_hostname(hostname)
ResolveHostname(hostname, e) ==
    LET r == resolve_hostname(_ip_cache, hostname, clock, e)
    IN  /\ _ip_cache' = r.cache
        /\ last' = [op |-> "resolve_hostname", hostname |-> hostname, now |-> clock,
                    before |-> CacheEntry(_ip_cache, hostname), env |-> e,
                    ip |-> r.ip, invoked |-> r.invoked]
        /\ UNCHANGED <<local_node_id, priority, rows, next_id, clock, routed, fallback_ip, running>>

\* time.time() moves on
Tick ==
    /\ clock < MaxClock
    /\ clock' = clock + 1
    /\ UNCHANGED <<local_node_id, priority, rows, next_id, last, routed, _ip_cache, fallback_ip, running>>

NextResolve ==
    \/ \E node_id \in NodeIds, is_local \in BOOLEAN, verify_ssh \in BOOLEAN, e \in ResolveEnvs :
          GetNodeIp(node_id, is_local, verify_ssh, e)
    \/ \E node_id \in UnknownNodeIds, is_local \in BOOLEAN, verify_ssh \in BOOLEAN,
           e \in UnknownNodeEnvs : GetNodeIp(node_id, is_local, verify_ssh, e)
    \/ \E hostname \in Hostnames, e \in HostnameEnvs : ResolveHostname(hostname, e)
    \/ Tick

SpecResolve == InitResolve /\ [][NextResolve]_vars

\* ------------------------------------------- properties of address resolution
ResolverLast == last.op \in {"get_node_ip", "resolve_hostname"}

\* C17: every address returned by get_node_ip or resolve_hostname passes
\* validate_ip, the configured fallback address included
C17_ReturnedAddressesValid ==
    (ResolverLast /\ TruthyStr(last.ip)) => validate_ip(last.ip)

\* the entry that resolve_hostname found for the hostname was younger than the TTL
FreshEntry ==
    /\ last.before # None
    /\ last.now - last.before[2] < ip_cache_ttl

\* some method asked about the hostname gave an address that passes the filter
Resolvable ==
    \E k \in MethodsAsked(last.hostname) :
        /\ MethodAnswers(last.hostname, last.env)[k] # None
        /\ validate_ip(MethodAnswers(last.hostname, last.env)[k])

\* C18: resolve_hostname answers from the cache, invoking no resolution method,
\* exactly when the hostname has an entry younger than the TTL; otherwise the
\* name is resolved again, the answer is an address one of the methods gave now,
\* and nothing is returned if that resolution fails
C18_CacheNeverReturnsExpired ==
    last.op = "resolve_hostname"
        => /\ (last.invoked = {}) <=> FreshEntry
           /\ FreshEntry => last.ip = last.before[1]
           /\ ~FreshEntry
                 => /\ "gethostbyname" \in last.invoked
                    /\ Resolvable <=> last.ip # None
                    /\ last.ip # None
                          => /\ \E k \in MethodsAsked(last.hostname) :
                                    MethodAnswers(last.hostname, last.env)[k] = last.ip
                             /\ _ip_cache[last.hostname] = <<last.ip, last.now>>

C18_Witness ==
    /\ last.op = "resolve_hostname"
    /\ last.before # None
    /\ last.now - last.before[2] = ip_cache_ttl
    /\ ~Resolvable
    /\ last.ip = None
    /\ last.invoked # {}

\* C19: whenever get_node_ip is called with verify_ssh true and returns an
\* address, verify_ssh_connectivity returned true for that address during the call
C19_VerifiedWhenAsked ==
    (last.op = "get_node_ip" /\ last.verify_ssh /\ TruthyStr(last.ip))
        => last.ip \in last.verified

\* C35: after _execute_local or _execute_remote returns for a script task, the
\* temporary script file it created on this host no longer exists, whatever
\* the process did
C35_LocalScriptUnlinked ==
    (ExecLast /\ RunsScript(last.task)) => ~last.files.local

\* C39: after _execute_remote returns for a script task whose copy succeeded,
\* /tmp/task_<task id>.sh no longer exists on the peer, whatever the exit code
\* and also after a timeout
C39_RemoteScriptRemoved ==
    (/\ last.op = "_execute_remote"
     /\ last.impl = "router"
     /\ RunsScript(last.task)
     /\ get_node(last.target_node) # None
     /\ last.env.resolved
     /\ last.env.scp = "ok")
        => ~last.files.remote

\* C37: every row of the task store is assigned, completed, failed or timeout
\* and has a node in assigned_to; pending, running and cancelled are never written
C37_RowStatusesWritten ==
    \A t \in TaskIds :
        rows[t] # NoRow
            => /\ rows[t].status \in {"assigned", "completed", "failed", "timeout"}
               /\ rows[t].assigned_to # None

\* submit_task has stored a row and its executor left it as it was stored
C37_Witness ==
    /\ last.op = "submit_task"
    /\ last.outcome = "raised"
    /\ rows[last.task_id] # NoRow
    /\ rows[last.task_id].status = "assigned"
    /\ rows[last.task_id].assigned_to \in CLUSTER_NODES

\* ======================================================================
\* The processes started by a remote dispatch (specification SpecDispatch)
\* ======================================================================

\* a process started from an argument list, and one started by handing a line
\* to the local shell (shell=True); command is the user's command it carries:
\* <<shell, args, command>>
ExecProcess(argv, command) == <<FALSE, argv, command>>

ShellProcess(line, command) == <<TRUE, line, command>>

\* shell=True, the first argument of subprocess.run, the user's command carried
ProcessShell(p) == p[1]

ProcessArgs(p) == p[2]

ProcessCommand(p) == p[3]

\* the argument list of the remote-shell client in the packaged router and server
ssh_argv(node_ip, remote_command) ==
    <<"ssh", "-o", "ConnectTimeout=2", "-o", "StrictHostKeyChecking=accept-new",
      "-o", "BatchMode=yes", "marc@" \o node_ip, remote_command>>

scp_argv(node_ip, local_script, remote_script) ==
    <<"scp", "-o", "ConnectTimeout=2", "-o", "StrictHostKeyChecking=accept-new",
      "-o", "BatchMode=yes", local_script, "marc@" \o node_ip \o ":" \o remote_script>>

\* the line the older router gives to the local shell
remote_cmd(node_ip, remote_command) ==
    "ssh -o ConnectTimeout=5 marc@" \o node_ip \o " '" \o remote_command \o "'"

RunScriptLine == "chmod +x /tmp/task.sh && /tmp/task.sh && rm /tmp/task.sh"

\* the processes _execute_remote starts when each of them exits 0
RouterRemoteProcesses(task, target_node, node_ip) ==
    IF get_node(target_node) = None \/ ~TruthyStr(node_ip) THEN <<>>
    ELSE IF TruthyStr(task.command)
    THEN <<ExecProcess(ssh_argv(node_ip, task.command), task.command)>>
    ELSE IF TruthyStr(task.script)
    THEN <<ExecProcess(scp_argv(node_ip, "/tmp/tmp.sh", "/tmp/task.sh"), None),
           ExecProcess(ssh_argv(node_ip, RunScriptLine), None)>>
    ELSE <<>>

\* the processes offload_to_node(command, node_id) starts
OffloadProcesses(command, node_id, node_ip) ==
    IF get_node(node_id) = None \/ ~validate_command(command) \/ ~TruthyStr(node_ip)
    THEN <<>>
    ELSE <<ExecProcess(ssh_argv(node_ip, command), command)>>

\* the processes parallel_execute(commands) starts: command idx goes to node
\* idx % len(nodes), and a command whose node has no address starts nothing
RECURSIVE ParallelProcessesFrom(_, _, _)
ParallelProcessesFrom(commands, idx, ips) ==
    IF idx >= Len(commands) THEN <<>>
    ELSE LET target_node == NodeOrder[(idx % Len(NodeOrder)) + 1]
         IN  (IF TruthyStr(ips[target_node])
              THEN <<ExecProcess(ssh_argv(ips[target_node], commands[idx + 1]),
                                 commands[idx + 1])>>
              ELSE <<>>)
             \o ParallelProcessesFrom(commands, idx + 1, ips)

ParallelProcesses(commands, ips) ==
    IF \E i \in 1..Len(commands) : ~validate_command(commands[i]) THEN <<>>
    ELSE ParallelProcessesFrom(commands, 0, ips)

\* the processes the older router's _execute_remote starts
LegacyRemoteProcesses(task, target_node, node_ip) ==
    IF target_node \notin LegacyNodes \/ ~TruthyStr(node_ip) THEN <<>>
    ELSE IF TruthyStr(task.command)
    THEN <<ShellProcess(remote_cmd(node_ip, task.command), task.command)>>
    ELSE IF TruthyStr(task.script)
    THEN <<ShellProcess("scp -o ConnectTimeout=5 /tmp/tmp.sh marc@" \o node_ip \o ":/tmp/task.sh", None),
           ShellProcess(remote_cmd(node_ip, RunScriptLine), None)>>
    ELSE <<>>

\* the commands of the dispatched tasks
DispatchCommands == {"echo hi", "echo $HOME", "x'; id #", "", "sudo RM -rf /tmp/x"}

DispatchTasks ==
    {[command |-> c, script |-> None] : c \in DispatchCommands}
    \cup {[command |-> None, script |-> "#!/bin/sh\nexit 3\n"]}

\* the command lists given to parallel_execute
CommandLists ==
    {<<c>> : c \in DispatchCommands} \cup {<<c, d>> : c, d \in DispatchCommands}

\* the address get_node_ip gives for each node
IpWorlds == {ShippedFallback, [n \in CLUSTER_NODES |-> None]}

DispatchTargets == {"builder", "macbook-air", "nowhere"}

Dispatched(op, impl, commands, target_node, processes) ==
    /\ last' = [op |-> op, impl |-> impl, commands |-> commands,
                target_node |-> target_node, processes |-> processes]
    /\ UNCHANGED <<local_node_id, priority, rows, next_id, clock, routed, _ip_cache, fallback_ip, running>>

RouterRemoteDispatch(task, target_node, ips) ==
    Dispatched("_execute_remote", "router", <<task.command>>, target_node,
               RouterRemoteProcesses(task, target_node,
                   IF get_node(target_node) = None THEN None ELSE ips[get_node(target_node)]))

OffloadToNode(command, node_id, ips) ==
    Dispatched("offload_to_node", "router", <<command>>, node_id,
               OffloadProcesses(command, node_id,
                   IF get_node(node_id) = None THEN None ELSE ips[get_node(node_id)]))

ParallelExecute(commands, ips) ==
    Dispatched("parallel_execute", "router", commands, None, ParallelProcesses(commands, ips))

LegacyRemoteDispatch(task, target_node, ips) ==
    Dispatched("_execute_remote", "legacy", <<task.command>>, target_node,
               LegacyRemoteProcesses(task, target_node,
                   IF get_node(target_node) = None THEN None ELSE ips[get_node(target_node)]))

InitDispatch ==
    /\ local_node_id \in {"mac-studio"}
    /\ priority = ShippedPriority
    /\ InitStore

NextDispatch ==
    \/ \E task \in DispatchTasks, target_node \in DispatchTargets, ips \in IpWorlds :
          RouterRemoteDispatch(task, target_node, ips)
    \/ \E command \in DispatchCommands, node_id \in DispatchTargets, ips \in IpWorlds :
          OffloadToNode(command, node_id, ips)
    \/ \E commands \in CommandLists, ips \in IpWorlds : ParallelExecute(commands, ips)
    \/ \E task \in DispatchTasks, target_node \in DispatchTargets, ips \in IpWorlds :
          LegacyRemoteDispatch(task, target_node, ips)

SpecDispatch == InitDispatch /\ [][NextDispatch]_vars

\* ----------------------------------------------- properties of remote dispatch
\* the last step started at least one process that carries a user's command
DispatchedCommand ==
    /\ last.op \in {"_execute_remote", "offload_to_node", "parallel_execute"}
    /\ \E i \in 1..Len(last.processes) : ProcessCommand(last.processes[i]) # None

\* C20: in every remote dispatch the remote-shell client is started from an
\* argument list whose last element is the user's command string, unchanged, and
\* no local shell interprets a string that contains the user's command
C20_RemoteArgvDiscipline ==
    DispatchedCommand
        => \A i \in 1..Len(last.processes) :
              ProcessCommand(last.processes[i]) # None
                  => /\ ~ProcessShell(last.processes[i])
                     /\ ProcessArgs(last.processes[i])[1] = "ssh"
                     /\ ProcessArgs(last.processes[i])[Len(ProcessArgs(last.processes[i]))]
                           = ProcessCommand(last.processes[i])

\* ======================================================================
\* The offload classification: should_offload_command, is_overloaded, should_offload
\* ======================================================================

\* config.cpu_threshold, config.load_threshold, config.memory_threshold as shipped
cpu_threshold == 40
load_threshold == 4
memory_threshold == 80

OFFLOAD_PATTERNS ==
    <<"make", "cargo", "npm", "yarn", "pnpm",
      "pytest", "jest", "mocha", "test",
      "build", "compile", "gcc", "g++", "clang",
      "docker", "podman", "kubectl",
      "rsync", "scp", "tar", "zip", "unzip",
      "find", "grep -r", "rg">>

LOCAL_PATTERNS == <<"ls", "pwd", "cd", "echo", "cat", "head", "tail", "which", "type">>

\* should_offload_command asking for the heavy patterns before the local ones
should_offload_command_heavyfirst(command) ==
    LET cmd_lower == lower(command)
    IN  \E k \in 1..Len(OFFLOAD_PATTERNS) : Contains(cmd_lower, OFFLOAD_PATTERNS[k])

\* should_offload_command accepting a heavy pattern only at the start of the command
should_offload_command_prefixonly(command) ==
    LET cmd_lower == lower(command)
    IN  IF \E k \in 1..Len(LOCAL_PATTERNS) : startswith(cmd_lower, LOCAL_PATTERNS[k])
        THEN FALSE
        ELSE \E k \in 1..Len(OFFLOAD_PATTERNS) : startswith(cmd_lower, OFFLOAD_PATTERNS[k])

should_offload_command(command) ==
    LET cmd_lower == lower(command)
    IN  IF \E k \in 1..Len(LOCAL_PATTERNS) : startswith(cmd_lower, LOCAL_PATTERNS[k])
        THEN FALSE
        ELSE \E k \in 1..Len(OFFLOAD_PATTERNS) : Contains(cmd_lower, OFFLOAD_PATTERNS[k])

\* what psutil reports: the three readings, or raises = TRUE when a reading
\* fails with OSError or AttributeError
Metrics(cpu, load, memory, raises) ==
    [cpu |-> cpu, load |-> load, memory |-> memory, raises |-> raises]

\* is_overloaded comparing with >= instead of >
is_overloaded_atthreshold(m) ==
    IF m.raises THEN FALSE
    ELSE m.cpu >= cpu_threshold \/ m.load >= load_threshold \/ m.memory >= memory_threshold

is_overloaded(m) ==
    IF m.raises THEN FALSE
    ELSE m.cpu > cpu_threshold \/ m.load > load_threshold \/ m.memory > memory_threshold

should_offload(command, m) ==
    IF should_offload_command(command) THEN TRUE ELSE is_overloaded(m)

\* should_offload of src/server.py: the heavy patterns first, then five simple
\* prefixes, then CPU and load (not memory) against 40 and 4
legacy_offload_patterns == OFFLOAD_PATTERNS

legacy_simple_patterns == <<"ls", "pwd", "cd", "echo", "cat">>

legacy_should_offload(command, m) ==
    LET cmd_lower == lower(command)
    IN  IF \E k \in 1..Len(legacy_offload_patterns) :
               Contains(cmd_lower, legacy_offload_patterns[k])
        THEN TRUE
        ELSE IF \E k \in 1..Len(legacy_simple_patterns) :
                    startswith(cmd_lower, legacy_simple_patterns[k])
        THEN FALSE
        ELSE m.cpu > 40 \/ m.load > 4

\* ------------------------------------------------------------------ inputs
PolicyCommands ==
    {"make build", "ls -la", "cat Makefile", "cd proj && make", "echo hello",
     "unknown_command", "CARGO test", "Tail -f build.log", "python -m pytest", "pwd"}

\* readings just below, at and just above each threshold
MetricsWorlds ==
    {Metrics(c, l, m, FALSE) :
        c \in {cpu_threshold - 1, cpu_threshold, cpu_threshold + 1},
        l \in {load_threshold - 1, load_threshold, load_threshold + 1},
        m \in {memory_threshold - 1, memory_threshold, memory_threshold + 1}}
    \cup {Metrics(cpu_threshold + 1, load_threshold + 1, memory_threshold + 1, TRUE)}

InitPolicy ==
    /\ local_node_id \in {"mac-studio"}
    /\ priority = ShippedPriority
    /\ InitStore

Classified(op, impl, command, m, result) ==
    /\ last.op = "none"
    /\ last' = [op |-> op, impl |-> impl, command |-> command, metrics |-> m,
                result |-> result]
    /\ UNCHANGED <<local_node_id, priority, rows, next_id, clock, routed, _ip_cache, fallback_ip, running>>

\* a call ClusterExecutionServer.should_offload(command) under the readings m
ShouldOffload(command, m) ==
    Classified("should_offload", "server", command, m, should_offload(command, m))

\* a call ClusterExecutionServer.is_overloaded() under the readings m
IsOverloaded(m) == Classified("is_overloaded", "server", None, m, is_overloaded(m))

\* a call should_offload(command) of src/server.py under the readings m
LegacyShouldOffload(command, m) ==
    /\ ~m.raises
    /\ Classified("should_offload", "legacy", command, m, legacy_should_offload(command, m))

NextPolicy ==
    \/ \E command \in PolicyCommands, m \in MetricsWorlds : ShouldOffload(command, m)
    \/ \E m \in MetricsWorlds : IsOverloaded(m)
    \/ \E command \in PolicyCommands, m \in MetricsWorlds : LegacyShouldOffload(command, m)

SpecPolicy == InitPolicy /\ [][NextPolicy]_vars

\* ------------------------------------------------------------ claims' side
ShouldOffloadCalled == last.op = "should_offload"

\* the command contains a pattern of the heavy list
ContainsHeavy(command) ==
    \E k \in 1..Len(OFFLOAD_PATTERNS) : Contains(lower(command), OFFLOAD_PATTERNS[k])

\* the command starts with one of the nine local-trivial prefixes
StartsLocalTrivial(command) ==
    \E p \in {"ls", "pwd", "cd", "echo", "cat", "head", "tail", "which", "type"} :
        startswith(lower(command), p)

\* at least one reading strictly above its threshold
SomeReadingExceeds(m) ==
    m.cpu > cpu_threshold \/ m.load > load_threshold \/ m.memory > memory_threshold

C29_LocalPrefixStaysLocal ==
    (/\ ShouldOffloadCalled
     /\ last.impl = "server"
     /\ StartsLocalTrivial(last.command)
     /\ ~last.metrics.raises
     /\ ~SomeReadingExceeds(last.metrics)) => ~last.result

C29_Witness ==
    /\ ShouldOffloadCalled
    /\ last.impl = "server"
    /\ StartsLocalTrivial(last.command)
    /\ ContainsHeavy(last.command)
    /\ ~last.metrics.raises
    /\ ~SomeReadingExceeds(last.metrics)
    /\ ~last.result

\* C30: the node is overloaded exactly when a reading strictly exceeds its
\* threshold, and while it is overloaded every command is classified offload
C30_OverloadedIffExceedsAndOffloadsAll ==
    /\ (last.op = "is_overloaded" /\ ~last.metrics.raises)
           => (last.result <=> SomeReadingExceeds(last.metrics))
    /\ (/\ ShouldOffloadCalled
        /\ last.impl = "server"
        /\ ~last.metrics.raises
        /\ SomeReadingExceeds(last.metrics)) => last.result

C30_Witness ==
    /\ ShouldOffloadCalled
    /\ last.impl = "server"
    /\ StartsLocalTrivial(last.command)
    /\ ~last.metrics.raises
    /\ last.metrics.cpu <= cpu_threshold
    /\ last.metrics.load <= load_threshold
    /\ last.metrics.memory > memory_threshold
    /\ last.result

\* ======================================================================
\* The tool operations: cluster_bash, cluster_status, offload_to, parallel_execute
\* ======================================================================

\* a result dictionary; None stands for a key the dictionary does not have
ToolResult(command, success, executed_on, stdout, stderr, error) ==
    <<command, success, executed_on, stdout, stderr, error>>

ResultCommand(r) == r[1]
ResultSuccess(r) == r[2]
ResultExecutedOn(r) == r[3]
ResultStdout(r) == r[4]
ResultStderr(r) == r[5]
ResultError(r) == r[6]

\* how a call of a tool operation ended: the exception that left it (None: it
\* returned), the dictionaries it returned, the processes it started
Ret(exc, results, spawned) == [exc |-> exc, results |-> results, spawned |-> spawned]

\* validate_command(command)[1] for a command that is not valid
validate_command_error(command) ==
    IF command = "" \/ StripIsEmpty(command) THEN "Command cannot be empty"
    ELSE LET k == CHOOSE j \in 1..Len(dangerous_patterns) :
                     /\ Contains(lower(command), lower(dangerous_patterns[j]))
                     /\ \A i \in 1..(j - 1) :
                           ~Contains(lower(command), lower(dangerous_patterns[i]))
         IN  "Command contains dangerous pattern: " \o dangerous_patterns[k]

\* validate_node_id(node_id)[1] for a node id that is not known
unknown_node_error(node_id) ==
    "Unknown node: " \o node_id \o ". Available: macpro51, mac-studio, macbook-air"
        \o " (aliases: builder, orchestrator, researcher, linux, studio, air)"

\* validate_node_id(node_id)[0]
validate_node_id(node_id) ==
    \/ node_id \in CLUSTER_NODES
    \/ resolve_node_id(node_id) \in CLUSTER_NODES

\* subprocess.run(...) of the server and the except clauses around it
RunTool(proc, command, executed_on, timeoutMsg) ==
    CASE proc = "exit0" ->
            Ret(None, <<ToolResult(command, TRUE, executed_on, "stdout", "", None)>>, 1)
      [] proc = "exit_nonzero" ->
            Ret(None, <<ToolResult(command, FALSE, executed_on, "stdout", "stderr", None)>>, 1)
      [] proc = "ssh_fail" ->
            Ret(None, <<ToolResult(command, FALSE, executed_on, "", "ssh stderr", None)>>, 1)
      [] proc = "timeout" ->
            Ret(None, <<ToolResult(command, FALSE, executed_on, None, None, timeoutMsg)>>, 1)
      [] proc = "oserror" ->
            Ret(None, <<ToolResult(command, FALSE, executed_on, None, None, "str(e)")>>, 1)

\* ClusterExecutionServer.execute_local(command)
execute_local(command, local, env) ==
    IF ~validate_command(command)
    THEN Ret(None, <<ToolResult(None, FALSE, local, None, None,
                                validate_command_error(command))>>, 0)
    ELSE IF UsesShell(command)
    THEN RunTool(env.proc, None, local, "Command timed out after 300s")
    ELSE CASE shlex_split(command) = "ValueError" -> Ret("ValueError", <<>>, 0)
           [] shlex_split(command) = "empty" -> Ret("IndexError", <<>>, 0)
           [] OTHER -> RunTool(env.proc, None, local, "Command timed out after 300s")

\* the keys auto_routed and return_code of a result dictionary; "absent" stands
\* for a key the dictionary does not have, or for no dictionary at all
ResultKeys(auto_routed, return_code) ==
    [auto_routed |-> auto_routed, return_code |-> return_code]

\* auto_routed and return_code of what execute_local(command) returns
execute_local_keys(command, local, env) ==
    IF ~validate_command(command) \/ execute_local(command, local, env).exc # None
    THEN ResultKeys("absent", "absent")
    ELSE CASE env.proc = "exit0" -> ResultKeys("False", "0")
           [] env.proc \in {"exit_nonzero", "ssh_fail"} -> ResultKeys("False", "nonzero")
           [] OTHER -> ResultKeys("False", "absent")

\* the statuses at which wait_for_result returns the row
WaitStatuses == {"completed", "failed", "timeout"}

\* the task_def execute_cluster_bash submits
cluster_bash_task_def(command, requires_os, requires_arch) ==
    [type |-> "shell", command |-> command, script |-> None,
     requires_os |-> requires_os, requires_arch |-> requires_arch,
     requires_capabilities |-> NoneList, force_node |-> None]

\* the dictionary execute_cluster_bash builds from what wait_for_result returned
\* for a row nobody else writes: the row when it is at a status of the list,
\* nothing (after the deadline) otherwise
offloaded_result(row) ==
    IF row.status \in WaitStatuses
    THEN ToolResult(None, row.status = "completed", row.assigned_to, row.result,
                    row.error, None)
    ELSE ToolResult(None, FALSE, None, None, None, "Task timed out")

\* auto_routed and return_code of the dictionary execute_cluster_bash builds
\* from what wait_for_result returned
offloaded_keys(row) ==
    IF row.status \in WaitStatuses
    THEN ResultKeys("True", IF row.status = "completed" THEN "0" ELSE "nonzero")
    ELSE ResultKeys("absent", "absent")

\* ClusterExecutionServer.offload_to_node with the command validated first
offload_to_node_commandfirst(command, node_id, env) ==
    IF ~validate_command(command)
    THEN Ret(None, <<ToolResult(None, FALSE, None, None, None,
                                validate_command_error(command))>>, 0)
    ELSE IF ~validate_node_id(node_id)
    THEN Ret(None, <<ToolResult(None, FALSE, None, None, None,
                                unknown_node_error(node_id))>>, 0)
    ELSE IF ~env.resolved
    THEN Ret(None, <<ToolResult(None, FALSE, None, None, None,
                                "Cannot resolve IP for node: " \o node_id)>>, 0)
    ELSE RunTool(env.proc, None, node_id, "Command timed out after 300s")

\* ClusterExecutionServer.offload_to_node(command, node_id)
offload_to_node(command, node_id, env) ==
    IF ~validate_node_id(node_id)
    THEN Ret(None, <<ToolResult(None, FALSE, None, None, None,
                                unknown_node_error(node_id))>>, 0)
    ELSE IF ~validate_command(command)
    THEN Ret(None, <<ToolResult(None, FALSE, None, None, None,
                                validate_command_error(command))>>, 0)
    ELSE IF ~env.resolved
    THEN Ret(None, <<ToolResult(None, FALSE, None, None, None,
                                "Cannot resolve IP for node: " \o node_id)>>, 0)
    ELSE RunTool(env.proc, None, node_id, "Command timed out after 300s")

\* execute_one(cmd, idx) of parallel_execute; idx counts from 0
execute_one(cmd, idx, env) ==
    LET target_node == NodeOrder[(idx % Len(NodeOrder)) + 1]
    IN  IF ~env.resolved
        THEN Ret(None, <<ToolResult(cmd, FALSE, None, None, None,
                                    "Cannot resolve IP for " \o target_node)>>, 0)
        ELSE RunTool(env.proc, cmd, target_node, "Timeout")

\* the validation loop of parallel_execute looking at the first command only
parallel_validation_firstonly(commands) ==
    IF Len(commands) > 0 /\ ~validate_command(commands[1])
    THEN "Invalid command: " \o validate_command_error(commands[1])
    ELSE None

\* the validation loop of parallel_execute: the error it returns, None when
\* every command is valid
parallel_validation(commands) ==
    IF \E i \in 1..Len(commands) : ~validate_command(commands[i])
    THEN LET i == CHOOSE j \in 1..Len(commands) :
                     /\ ~validate_command(commands[j])
                     /\ \A k \in 1..(j - 1) : validate_command(commands[k])
         IN  "Invalid command: " \o validate_command_error(commands[i])
    ELSE None

\* asyncio.gather handing the results back in the order the coroutines finished;
\* done is the sequence of <<index, result>> in the order of completion
gather_as_completed(n, done) == [k \in 1..n |-> done[k][2]]

\* asyncio.gather(*tasks): the result of task i at position i
gather(n, done) ==
    [i \in 1..n |-> done[CHOOSE k \in 1..Len(done) : done[k][1] = i][2]]

\* ------------------------------------------------------- get_cluster_status
\* the entry of one node in the snapshot; None stands for an absent key
NodeEntry(reachable, status, error) == <<reachable, status, error>>

EntryReachable(entry) == entry[1]
EntryStatus(entry) == entry[2]
EntryError(entry) == entry[3]

\* float(line) raises ValueError (the probe's numbers are whole in the model)
FloatRaises(line) == IntRaises(line)

\* the classification of a peer from the three numbers it printed
peer_status(lines) ==
    IF \/ int(lines[1]) > cpu_threshold
       \/ int(lines[2]) > memory_threshold
       \/ int(lines[3]) > load_threshold
    THEN "overloaded" ELSE "healthy"

\* the body of the loop over the peers with the ValueError of float() not caught
peer_entry_unparsed(w) ==
    IF ~w.resolved
    THEN [exc |-> None, entry |-> NodeEntry(FALSE, None, "Cannot resolve IP")]
    ELSE CASE w.proc = "timeout" -> [exc |-> None, entry |-> NodeEntry(FALSE, None, "Timeout")]
           [] w.proc \in {"subprocess_error", "oserror"} ->
                 [exc |-> None, entry |-> NodeEntry(FALSE, None, "str(e)")]
           [] w.proc = "exit_nonzero" ->
                 [exc |-> None,
                  entry |-> NodeEntry(FALSE, None,
                                      IF w.stderr # "" THEN w.stderr ELSE "SSH failed")]
           [] w.proc = "exit0" ->
                 IF Len(w.lines) >= 3
                 THEN IF \E i \in 1..3 : FloatRaises(w.lines[i])
                      THEN [exc |-> "ValueError", entry |-> NodeEntry(TRUE, None, None)]
                      ELSE [exc |-> None,
                            entry |-> NodeEntry(TRUE, peer_status(w.lines), None)]
                 ELSE [exc |-> None,
                       entry |-> NodeEntry(TRUE, None, "Unexpected output format")]

\* the body of the loop over the peers: the entry of one peer
peer_entry(w) ==
    IF ~w.resolved
    THEN [exc |-> None, entry |-> NodeEntry(FALSE, None, "Cannot resolve IP")]
    ELSE CASE w.proc = "timeout" -> [exc |-> None, entry |-> NodeEntry(FALSE, None, "Timeout")]
           [] w.proc \in {"subprocess_error", "oserror"} ->
                 [exc |-> None, entry |-> NodeEntry(FALSE, None, "str(e)")]
           [] w.proc = "exit_nonzero" ->
                 [exc |-> None,
                  entry |-> NodeEntry(FALSE, None,
                                      IF w.stderr # "" THEN w.stderr ELSE "SSH failed")]
           [] w.proc = "exit0" ->
                 IF Len(w.lines) >= 3
                 THEN IF \E i \in 1..3 : FloatRaises(w.lines[i])
                      THEN [exc |-> None,
                            entry |-> NodeEntry(TRUE, None, "Parse error: could not convert")]
                      ELSE [exc |-> None,
                            entry |-> NodeEntry(TRUE, peer_status(w.lines), None)]
                 ELSE [exc |-> None,
                       entry |-> NodeEntry(TRUE, None, "Unexpected output format")]

\* the entry of the local node
local_entry(m) ==
    IF m.raises THEN NodeEntry(TRUE, None, "str(e)")
    ELSE NodeEntry(TRUE, IF is_overloaded(m) THEN "overloaded" ELSE "healthy", None)

\* ClusterExecutionServer.get_cluster_status(): the exception that left it, the
\* entries of the snapshot
get_cluster_status(local, m, worlds) ==
    LET peers == CLUSTER_NODES \ {local}
        raised == {n \in peers : peer_entry(worlds[n]).exc # None}
    IN  IF raised # {}
        THEN [exc |-> peer_entry(worlds[CHOOSE n \in raised : TRUE]).exc,
              local_node |-> local, nodes |-> << >>]
        ELSE [exc |-> None, local_node |-> local,
              nodes |-> [n \in peers \cup {local} |->
                            IF n = local THEN local_entry(m)
                            ELSE peer_entry(worlds[n]).entry]]

\* ------------------------------------------------------------------ inputs
\* the node ids given to offload_to
ToolNodeIds == {"builder", "macbook-air", "Studio", "nowhere"}

\* what the resolver and the process do during a call of the server
ToolEnvs ==
    {[proc |-> p, resolved |-> TRUE, scp |-> "ok"] : p \in ProcOutcomes \cup {"ssh_fail"}}
    \cup {[proc |-> "exit0", resolved |-> FALSE, scp |-> "ok"]}

\* the readings during a call: a quiet node, a node short of memory
ToolMetrics ==
    {Metrics(cpu_threshold - 1, load_threshold - 1, memory_threshold - 1, FALSE),
     Metrics(cpu_threshold - 1, load_threshold - 1, memory_threshold + 1, FALSE)}

\* the command lists given to parallel_execute
ToolCommandLists ==
    {<<>>, <<"echo hi">>, <<"echo hi", "echo \"hi">>, <<"make | tee log", "">>,
     <<"sudo RM -rf /tmp/x", "echo hi">>}

\* what a peer does when get_cluster_status asks it for its numbers
PeerWorlds ==
    {[resolved |-> FALSE, proc |-> "exit0", lines |-> <<"">>, stderr |-> ""],
     [resolved |-> TRUE, proc |-> "exit0", lines |-> <<"10", "30", "1">>, stderr |-> ""],
     [resolved |-> TRUE, proc |-> "exit0", lines |-> <<"41", "30", "1">>, stderr |-> ""],
     [resolved |-> TRUE, proc |-> "exit0", lines |-> <<"10", "30">>, stderr |-> ""],
     [resolved |-> TRUE, proc |-> "exit0", lines |-> <<"10", "n/a", "1">>, stderr |-> ""],
     [resolved |-> TRUE, proc |-> "exit0", lines |-> <<"Welcome", "10", "30", "1">>,
      stderr |-> ""],
     [resolved |-> TRUE, proc |-> "exit_nonzero", lines |-> <<"">>,
      stderr |-> "Permission denied"],
     [resolved |-> TRUE, proc |-> "exit_nonzero", lines |-> <<"">>, stderr |-> ""],
     [resolved |-> TRUE, proc |-> "timeout", lines |-> <<"">>, stderr |-> ""],
     [resolved |-> TRUE, proc |-> "oserror", lines |-> <<"">>, stderr |-> ""]}

\* the readings of the local node during get_cluster_status
StatusMetrics ==
    ToolMetrics \cup {Metrics(cpu_threshold, load_threshold, memory_threshold, TRUE)}

InitTool ==
    /\ local_node_id \in {"mac-studio", "orchestrator"}
    /\ priority = ShippedPriority
    /\ InitStore

\* a call of a tool operation that touches no table
ToolCalled(op, command, node_id, commands, env, ret) ==
    /\ last.op = "none"
    /\ last' = [op |-> op, command |-> command, node_id |-> node_id,
                commands |-> commands, env |-> env, ret |-> ret, offloaded |-> FALSE]
    /\ UNCHANGED <<local_node_id, priority, rows, next_id, clock, routed, _ip_cache, fallback_ip, running>>

\* the tool cluster_bash(command, requires_os, requires_arch, auto_route)
CallClusterBash(command, requires_os, auto_route, m, env) ==
    /\ last.op = "none"
    /\ next_id < MaxTasks
    /\ clock < MaxClock
    /\ IF ~validate_command(command)
       THEN /\ last' = [op |-> "cluster_bash", command |-> command, node_id |-> None,
                        commands |-> <<>>, metrics |-> m, env |-> env,
                        ret |-> Ret(None, <<ToolResult(None, FALSE, None, None, None,
                                                       validate_command_error(command))>>, 0),
                        offloaded |-> FALSE, auto_route |-> auto_route,
                        keys |-> ResultKeys("absent", "absent")]
            /\ UNCHANGED <<rows, next_id, clock>>
       ELSE IF auto_route /\ should_offload(command, m)
       THEN LET task_id == next_id + 1
                task_def == cluster_bash_task_def(command, requires_os, None)
                task == TaskOf(task_def)
                target_node == _route_task(task, priority, local_node_id)
                stored == _store_task(rows, task_id, task, target_node)
                did == Dispatch(task, target_node, env)
                after == ApplyUpdates(stored, task_id, did.upd, clock + 1)
                ret == IF did.exc = "ValueError"
                       THEN Ret(None, <<ToolResult(None, FALSE, None, None, None, "str(e)")>>,
                                did.spawned)
                       ELSE IF did.exc # None THEN Ret(did.exc, <<>>, did.spawned)
                       ELSE Ret(None, <<offloaded_result(after[task_id])>>, did.spawned)
            IN  /\ rows' = after
                /\ next_id' = task_id
                /\ clock' = clock + 1
                /\ last' = [op |-> "cluster_bash", command |-> command, node_id |-> None,
                            commands |-> <<>>, metrics |-> m, env |-> env, ret |-> ret,
                            offloaded |-> TRUE, auto_route |-> auto_route,
                            keys |-> IF did.exc # None THEN ResultKeys("absent", "absent")
                                     ELSE offloaded_keys(after[task_id])]
       ELSE /\ last' = [op |-> "cluster_bash", command |-> command, node_id |-> None,
                        commands |-> <<>>, metrics |-> m, env |-> env,
                        ret |-> execute_local(command, local_node_id, env),
                        offloaded |-> FALSE, auto_route |-> auto_route,
                        keys |-> execute_local_keys(command, local_node_id, env)]
            /\ UNCHANGED <<rows, next_id, clock>>
    /\ UNCHANGED <<local_node_id, priority, routed, _ip_cache, fallback_ip, running>>

\* the tool cluster_status()
CallClusterStatus(m, worlds) ==
    /\ last.op = "none"
    /\ last' = [op |-> "cluster_status", metrics |-> m, worlds |-> worlds,
                status |-> get_cluster_status(local_node_id, m, worlds)]
    /\ UNCHANGED <<local_node_id, priority, rows, next_id, clock, routed, _ip_cache, fallback_ip, running>>

\* the tool offload_to(command, node_id)
CallOffloadTo(command, node_id, env) ==
    ToolCalled("offload_to", command, node_id, <<>>, env,
               offload_to_node(command, node_id, env))

\* the tool parallel_execute(commands), every coroutine run to its end
CallParallelExecute(commands, envs) ==
    ToolCalled("parallel_execute", None, None, commands, envs,
               IF parallel_validation(commands) # None
               THEN Ret(None, <<ToolResult(None, FALSE, None, None, None,
                                           parallel_validation(commands))>>, 0)
               ELSE LET one(i) == execute_one(commands[i], i - 1, envs[i])
                    IN  Ret(None,
                            gather(Len(commands),
                                   [i \in 1..Len(commands) |-> <<i, one(i).results[1]>>]),
                            Cardinality({i \in 1..Len(commands) : one(i).spawned > 0})))

NextTool ==
    \/ \E command \in Commands, requires_os \in {None, "windows"}, auto_route \in BOOLEAN,
          m \in ToolMetrics, env \in ToolEnvs :
          CallClusterBash(command, requires_os, auto_route, m, env)
    \/ \E m \in StatusMetrics, worlds \in [CLUSTER_NODES -> PeerWorlds] :
          CallClusterStatus(m, worlds)
    \/ \E command \in Commands, node_id \in ToolNodeIds, env \in ToolEnvs :
          CallOffloadTo(command, node_id, env)
    \/ \E commands \in ToolCommandLists :
          \E envs \in [1..Len(commands) -> ToolEnvs] : CallParallelExecute(commands, envs)

SpecTool == InitTool /\ [][NextTool]_vars

\* ------------------------------------------------------------ claims' side
\* the exception that left the last call of a tool operation
ToolExc == IF last.op = "cluster_status" THEN last.status.exc ELSE last.ret.exc

\* the resolver, the tokenizer or the process failed under a valid command of
\* cluster_bash or offload_to
InternalFailure ==
    /\ last.op \in {"cluster_bash", "offload_to"}
    /\ validate_command(last.command)
    /\ last.op = "offload_to" => get_node(last.node_id) # None
    /\ \/ last.env.proc \in {"timeout", "oserror"}
       \/ ~last.env.resolved /\ (last.op = "offload_to" \/ last.offloaded)
       \/ ~UsesShell(last.command) /\ shlex_split(last.command) = "ValueError"

\* C21: every tool operation returns a structured result and never raises; an
\* internal failure under a valid command shows as success false with an error
C21_ToolsAlwaysReturn ==
    /\ last.op \in {"cluster_bash", "cluster_status", "offload_to", "parallel_execute"}
          => ToolExc = None
    /\ InternalFailure
          => /\ Len(last.ret.results) = 1
             /\ ~ResultSuccess(last.ret.results[1])
             /\ ResultError(last.ret.results[1]) # None

NoRowWritten == \A t \in TaskIds : rows[t] = NoRow

\* C22: offload_to_node answers an unknown node, an invalid command and an
\* unresolved address with success false and an error, starts no process and
\* writes no row; the node is looked at before the command
C22_OffloadRejectsBeforeDispatch ==
    (/\ last.op = "offload_to"
     /\ \/ get_node(last.node_id) = None
        \/ last.command = ""
        \/ StripIsEmpty(last.command)
        \/ ContainsBlocked(last.command)
        \/ ~last.env.resolved)
    => /\ last.ret.exc = None
       /\ Len(last.ret.results) = 1
       /\ ~ResultSuccess(last.ret.results[1])
       /\ ResultError(last.ret.results[1]) # None
       /\ last.ret.spawned = 0
       /\ NoRowWritten
       /\ get_node(last.node_id) = None
             => startswith(ResultError(last.ret.results[1]), "Unknown node: " \o last.node_id)

C22_Witness ==
    /\ last.op = "offload_to"
    /\ get_node(last.node_id) = None
    /\ ContainsBlocked(last.command)
    /\ last.env.resolved
    /\ last.env.proc = "exit0"
    /\ ~ResultSuccess(last.ret.results[1])
    /\ startswith(ResultError(last.ret.results[1]), "Unknown node: nowhere")
    /\ last.ret.spawned = 0
    /\ NoRowWritten

\* the peer could not be reached: no address, login refused, no answer in time,
\* the client could not be started
PeerUnreached(w) == ~w.resolved \/ w.proc \in {"exit_nonzero", "timeout", "oserror"}

\* the peer answered with something other than three numbers
PeerUnparsable(w) ==
    /\ w.resolved
    /\ w.proc = "exit0"
    /\ \/ Len(w.lines) < 3
       \/ \E i \in 1..3 : \E j \in 1..Len(w.lines[i]) : CharAt(w.lines[i], j) \notin DigitChars

C31_LocalUnlessOffload ==
    last.op = "cluster_bash" =>
        /\ last.offloaded => (last.auto_route /\ should_offload(last.command, last.metrics))
        /\ ~last.offloaded =>
              /\ NoRowWritten
              /\ last.ret.exc = None
              /\ last.ret.spawned = 1
              /\ ResultExecutedOn(last.ret.results[1]) = local_node_id
              /\ last.keys.auto_routed = "False"

\* C38: on the local path and on the path through the task queue alike,
\* execute_cluster_bash reports success true, and return_code 0, only for a
\* command whose process exited 0
C38_SuccessMeansExitZero ==
    (/\ last.op = "cluster_bash"
     /\ last.ret.exc = None
     /\ Len(last.ret.results) = 1)
        => /\ ResultSuccess(last.ret.results[1])
                 => (last.ret.spawned > 0 /\ last.env.proc = "exit0")
           /\ last.keys.return_code = "0"
                 => (last.ret.spawned > 0 /\ last.env.proc = "exit0")

\* ======================================================================
\* parallel_execute, coroutine by coroutine
\* ======================================================================

\* the statuses at which wait_for_result of the older router returns the row
LegacyWaitStatuses == {"completed", "failed"}

\* the entry parallel_execute of src/server.py appends for one command, from
\* the row wait_for_result returned
legacy_parallel_result(cmd, row) ==
    ToolResult(cmd, row.status = "completed", row.assigned_to,
               IF TruthyStr(row.result) THEN row.result ELSE "",
               IF TruthyStr(row.error) THEN row.error ELSE "", None)

\* parallel_execute of src/server.py from command i on: every command is
\* submitted (stored and executed) in turn, then every task is waited for
RECURSIVE legacy_submit_all(_, _, _, _, _, _, _)
legacy_submit_all(store, commands, i, first_id, target_node, envs, now) ==
    IF i > Len(commands) THEN [exc |-> None, rows |-> store, spawned |-> 0]
    ELSE LET task == [command |-> commands[i], script |-> None]
             task_id == first_id + i
             did == legacy_execute_remote(task, target_node, envs[i])
             after == ApplyUpdates(_store_task(store, task_id, task, target_node),
                                   task_id, did.upd, now)
         IN  IF did.exc # None
             THEN [exc |-> did.exc, rows |-> after, spawned |-> did.spawned]
             ELSE LET rest == legacy_submit_all(after, commands, i + 1, first_id,
                                                target_node, envs, now)
                  IN  [exc |-> rest.exc, rows |-> rest.rows,
                       spawned |-> did.spawned + rest.spawned]

\* ------------------------------------------------------------------ inputs
ParallelCommands == {"echo a", "echo b", "sudo rm -rf /"}

RECURSIVE ListsUpTo(_, _)
ListsUpTo(items, n) ==
    IF n = 0 THEN {<<>>}
    ELSE LET shorter == ListsUpTo(items, n - 1)
         IN  shorter \cup {Append(l, x) : l \in {m \in shorter : Len(m) = n - 1}, x \in items}

ParallelLists == ListsUpTo(ParallelCommands, MaxCommands)

\* the peers the older router sends a shell task to from the orchestrator
LegacyPeers == LegacyNodes \ {"orchestrator"}

InitParallel ==
    /\ local_node_id \in {"mac-studio"}
    /\ priority = ShippedPriority
    /\ rows = [t \in 1..MaxCommands |-> NoRow]
    /\ next_id = 0
    /\ clock = 0
    /\ last = NoCall
    /\ routed = NoRoute
    /\ _ip_cache = << >>
    /\ fallback_ip = ShippedFallback
    /\ running = NotRunning

\* parallel_execute(commands) up to the first await: the validation loop and
\* the creation of one coroutine for every command
StartParallel(commands) ==
    /\ last.op = "none"
    /\ running = NotRunning
    /\ IF parallel_validation(commands) # None
       THEN /\ last' = [op |-> "parallel_execute", impl |-> "server", commands |-> commands,
                        done |-> <<>>,
                        ret |-> Ret(None, <<ToolResult(None, FALSE, None, None, None,
                                                       parallel_validation(commands))>>, 0)]
            /\ UNCHANGED running
       ELSE /\ running' = [op |-> "parallel_execute", commands |-> commands,
                           done |-> <<>>, spawned |-> 0]
            /\ UNCHANGED last
    /\ UNCHANGED <<local_node_id, priority, rows, next_id, clock, routed, _ip_cache, fallback_ip>>

\* the coroutine execute_one(commands[i], i - 1) runs to its return
CoroutineReturns(i, env) ==
    /\ running.op = "parallel_execute"
    /\ i \in 1..Len(running.commands)
    /\ \A k \in 1..Len(running.done) : running.done[k][1] # i
    /\ LET one == execute_one(running.commands[i], i - 1, env)
       IN  running' = [running EXCEPT !.done = Append(@, <<i, one.results[1]>>),
                                      !.spawned = @ + one.spawned]
    /\ UNCHANGED <<local_node_id, priority, rows, next_id, clock, last, routed, _ip_cache, fallback_ip>>

\* asyncio.gather returns once every coroutine has returned
Gather ==
    /\ running.op = "parallel_execute"
    /\ Len(running.done) = Len(running.commands)
    /\ last' = [op |-> "parallel_execute", impl |-> "server",
                commands |-> running.commands, done |-> running.done,
                ret |-> Ret(None, gather(Len(running.commands), running.done),
                            running.spawned)]
    /\ running' = NotRunning
    /\ UNCHANGED <<local_node_id, priority, rows, next_id, clock, routed, _ip_cache, fallback_ip>>

\* parallel_execute(commands) of src/server.py
LegacyParallelExecute(commands, target_node, envs) ==
    /\ last.op = "none"
    /\ running = NotRunning
    /\ clock < MaxClock
    /\ LET sub == legacy_submit_all(rows, commands, 1, next_id, target_node, envs, clock + 1)
           waited == {i \in 1..Len(commands) :
                         sub.rows[next_id + i].status \in LegacyWaitStatuses}
           done == [i \in 1..Len(commands) |->
                       <<i, legacy_parallel_result(commands[i], sub.rows[next_id + i])>>]
       IN  /\ rows' = sub.rows
           /\ next_id' = next_id + Len(commands)
           /\ clock' = clock + 1
           /\ last' = [op |-> "parallel_execute", impl |-> "legacy", commands |-> commands,
                       done |-> IF sub.exc = None /\ waited = 1..Len(commands)
                                THEN done ELSE <<>>,
                       ret |-> IF sub.exc # None THEN Ret(sub.exc, <<>>, sub.spawned)
                               ELSE IF waited # 1..Len(commands)
                               THEN Ret("TypeError", <<>>, sub.spawned)
                               ELSE Ret(None, [i \in 1..Len(commands) |-> done[i][2]],
                                        sub.spawned)]
    /\ UNCHANGED <<local_node_id, priority, routed, _ip_cache, fallback_ip, running>>

NextParallel ==
    \/ \E commands \in ParallelLists : StartParallel(commands)
    \/ \E i \in 1..MaxCommands, env \in ToolEnvs : CoroutineReturns(i, env)
    \/ Gather
    \/ \E commands \in ParallelLists, target_node \in LegacyPeers :
          \E envs \in [1..Len(commands) -> ToolEnvs] :
              LegacyParallelExecute(commands, target_node, envs)

SpecParallel == InitParallel /\ [][NextParallel]_vars

\* ------------------------------------------------------------ claims' side
ParallelReturned == last.op = "parallel_execute"

AllValid(commands) ==
    \A i \in 1..Len(commands) :
        /\ ~StripIsEmpty(commands[i])
        /\ ~ContainsBlocked(commands[i])

C24_InvalidCommandFailsFast ==
    /\ (ParallelReturned /\ last.impl = "server" /\ ~AllValid(last.commands)) =>
          /\ last.ret.exc = None
          /\ Len(last.ret.results) = 1
          /\ ~ResultSuccess(last.ret.results[1])
          /\ ResultError(last.ret.results[1]) # None
          /\ last.ret.spawned = 0
          /\ last.done = <<>>
    /\ running.op = "parallel_execute" => AllValid(running.commands)

C24_Witness ==
    /\ ParallelReturned
    /\ last.impl = "server"
    /\ Len(last.commands) = 2
    /\ AllValid(<<last.commands[1]>>)
    /\ ~AllValid(<<last.commands[2]>>)
    /\ Len(last.ret.results) = 1
    /\ startswith(ResultError(last.ret.results[1]), "Invalid command: ")
    /\ last.ret.spawned = 0

\* ======================================================================
\* The JSON columns of task_queue and get_task_status
\* ======================================================================

\* Python values: a tag and the parts of the value
PyNone == <<"None", <<>>>>
PyStr(s) == <<"str", <<s>>>>
PyInt(digits) == <<"int", <<digits>>>>
\* a list of values
PyList(items) == <<"list", items>>
\* a dictionary, as the sequence key, value, key, value, ...
PyDict(items) == <<"dict", items>>

\* bool(v)
PyTruthy(v) ==
    CASE v[1] = "None" -> FALSE
      [] v[1] = "str" -> v[2][1] # ""
      [] v[1] = "int" -> v[2][1] # "0"
      [] OTHER -> v[2] # <<>>

RECURSIVE json_dumps(_)
RECURSIVE json_items(_, _)
RECURSIVE json_pairs(_, _)

\* the elements of a list from the i-th on, with json's ", " between them
json_items(items, i) ==
    IF i > Len(items) THEN ""
    ELSE (IF i > 1 THEN ", " ELSE "") \o json_dumps(items[i]) \o json_items(items, i + 1)

\* the members of a dictionary from position i on, with json's ": " and ", "
json_pairs(items, i) ==
    IF i > Len(items) THEN ""
    ELSE (IF i > 1 THEN ", " ELSE "") \o json_dumps(items[i]) \o ": "
            \o json_dumps(items[i + 1]) \o json_pairs(items, i + 2)

\* json.dumps(v)
json_dumps(v) ==
    CASE v[1] = "None" -> "null"
      [] v[1] = "str" -> "\"" \o v[2][1] \o "\""
      [] v[1] = "int" -> v[2][1]
      [] v[1] = "list" -> "[" \o json_items(v[2], 1) \o "]"
      [] v[1] = "dict" -> "{" \o json_pairs(v[2], 1) \o "}"

\* the result dictionary the executors of the older router store as JSON text
legacy_result(stdout, stderr, return_code) ==
    PyDict(<<PyStr("stdout"), PyStr(stdout), PyStr("stderr"), PyStr(stderr),
             PyStr("return_code"), PyInt(return_code)>>)

\* the values metadata and requires_capabilities are given
MetadataValues ==
    {PyNone, PyDict(<<>>), PyDict(<<PyStr("source"), PyStr("cluster-execution-mcp")>>)}

CapabilityValues ==
    {PyNone, PyList(<<>>), PyList(<<PyStr("docker")>>),
     PyList(<<PyStr("docker"), PyStr("podman")>>)}

\* the JSON documents that occur as text in the model
JsonDocuments ==
    MetadataValues \cup CapabilityValues
    \cup {legacy_result("stdout", "", "0"), legacy_result("stdout", "stderr", "3"),
          PyInt("42"), PyStr("")}

JSONDecodeError == <<"JSONDecodeError", <<>>>>

\* json.loads(text): the document with this text, JSONDecodeError for a text
\* that is no JSON document
json_loads(text) ==
    IF \E v \in JsonDocuments : json_dumps(v) = text
    THEN CHOOSE v \in JsonDocuments : json_dumps(v) = text
    ELSE JSONDecodeError

\* json.dumps(x) if x else None, the value bound to a JSON column by _store_task
json_column(v) == IF PyTruthy(v) THEN PyStr(json_dumps(v)) ELSE PyNone

\* the columns requires_capabilities and metadata of the row _store_task inserts
json_columns(task) ==
    [requires_capabilities |-> json_column(task.requires_capabilities),
     metadata |-> json_column(task.metadata)]

\* the three columns of a stored row as Python values
RowValues(row) ==
    [requires_capabilities |-> row.requires_capabilities, metadata |-> row.metadata,
     result |-> IF row.result = None THEN PyNone ELSE PyStr(row.result)]

\* get_task_status(task_id): dict(zip(columns, row)), the row as it is stored
get_task_status(row) == RowValues(row)

\* the loop over json_fields of the older get_task_status for one field
legacy_parse(v) ==
    IF PyTruthy(v) /\ v[1] = "str" /\ json_loads(v[2][1]) # JSONDecodeError
    THEN json_loads(v[2][1])
    ELSE v

\* get_task_status(task_id) of the older router
legacy_get_task_status(row) ==
    [requires_capabilities |-> legacy_parse(RowValues(row).requires_capabilities),
     metadata |-> legacy_parse(RowValues(row).metadata),
     result |-> legacy_parse(RowValues(row).result)]

\* ------------------------------------------------------------------ inputs
\* the tasks stored: every combination of the two JSON values
StatusTasks ==
    [command : {"echo hi"}, script : {None},
     requires_capabilities : CapabilityValues, metadata : MetadataValues]

\* what the executors of the packaged router write as result, and the value
\* it stands for
RouterResults == {<<"stdout", PyStr("stdout")>>, <<"42", PyStr("42")>>, <<"", PyStr("")>>}

\* what the executors of the older router write as result, and the value it
\* stands for
LegacyResults ==
    {<<json_dumps(d), d>> :
        d \in {legacy_result("stdout", "", "0"), legacy_result("stdout", "stderr", "3")}}

InitStatus ==
    /\ local_node_id \in {"mac-studio"}
    /\ priority = ShippedPriority
    /\ InitStore

\* _store_task(task, target_node) of either router; last keeps the values as
\* they were given
StoreTask(impl, task_id, task) ==
    /\ rows[task_id] = NoRow
    /\ rows' = [rows EXCEPT ![task_id] =
                   _store_task(rows, task_id, task, "macpro51")[task_id] @@ json_columns(task)]
    /\ next_id' = task_id
    /\ last' = [op |-> "_store_task", impl |-> impl, task_id |-> task_id,
                written |-> [requires_capabilities |-> task.requires_capabilities,
                             metadata |-> task.metadata, result |-> PyNone]]
    /\ UNCHANGED <<local_node_id, priority, clock, routed, _ip_cache, fallback_ip, running>>

\* _update_task_result(task_id, COMPLETED, result, None) by the router that
\* stored the task
StoreResult(task_id, r) ==
    /\ last.op = "_store_task"
    /\ last.task_id = task_id
    /\ clock < MaxClock
    /\ r \in (IF last.impl = "router" THEN RouterResults ELSE LegacyResults)
    /\ clock' = clock + 1
    /\ rows' = _update_task_result(rows, task_id, Update("completed", r[1], None), clock + 1)
    /\ last' = [last EXCEPT !.op = "_update_task_result", !.written.result = r[2]]
    /\ UNCHANGED <<local_node_id, priority, next_id, routed, _ip_cache, fallback_ip, running>>

\* get_task_status(task_id) by the router that stored the task
GetTaskStatus(task_id) ==
    /\ last.op \in {"_store_task", "_update_task_result"}
    /\ last.task_id = task_id
    /\ rows[task_id] # NoRow
    /\ last' = [op |-> "get_task_status", impl |-> last.impl, task_id |-> task_id,
                written |-> last.written,
                read |-> IF last.impl = "router" THEN get_task_status(rows[task_id])
                         ELSE legacy_get_task_status(rows[task_id])]
    /\ UNCHANGED <<local_node_id, priority, rows, next_id, clock, routed, _ip_cache, fallback_ip, running>>

NextStatus ==
    \/ \E impl \in {"router", "legacy"}, task_id \in TaskIds, task \in StatusTasks :
          StoreTask(impl, task_id, task)
    \/ \E task_id \in TaskIds, r \in RouterResults \cup LegacyResults : StoreResult(task_id, r)
    \/ \E task_id \in TaskIds : GetTaskStatus(task_id)

SpecStatus == InitStatus /\ [][NextStatus]_vars

\* ------------------------------------------------------------ claims' side
\* C26: what get_task_status reads back as metadata, requires_capabilities and
\* result equals what was written, an empty list or map included
C26_JsonFieldsRoundTrip ==
    last.op = "get_task_status" =>
        /\ last.read.metadata = last.written.metadata
        /\ last.read.requires_capabilities = last.written.requires_capabilities
        /\ last.read.result = last.written.result

\* ======================================================================
\* wait_for_result, poll by poll
\* ======================================================================

\* TaskStatus
TaskStatusValues ==
    {"pending", "assigned", "running", "completed", "failed", "cancelled", "timeout"}

\* the statuses at which the loop of wait_for_result returns the row
ReturnStatuses(impl) == IF impl = "router" THEN WaitStatuses ELSE LegacyWaitStatuses

\* the statuses another writer of the table gives a row
WrittenStatuses == TaskStatusValues \ {"pending", "assigned"}

InitWait ==
    /\ local_node_id \in {"mac-studio"}
    /\ priority = ShippedPriority
    /\ \E stored \in BOOLEAN :
          rows = [t \in TaskIds |->
                     IF stored
                     THEN _store_task([u \in TaskIds |-> NoRow], t,
                                      [command |-> "echo hi", script |-> None], "macpro51")[t]
                     ELSE NoRow]
    /\ next_id = MaxTasks
    /\ clock = 0
    /\ last = NoCall
    /\ routed = NoRoute
    /\ _ip_cache = << >>
    /\ fallback_ip = ShippedFallback
    /\ running = NotRunning

\* wait_for_result(task_id, timeout) up to the head of its loop
StartWait(impl, task_id, timeout) ==
    /\ running = NotRunning
    /\ running' = [op |-> "wait_for_result", impl |-> impl, task_id |-> task_id,
                   start_time |-> clock, timeout |-> timeout]
    /\ UNCHANGED <<local_node_id, priority, rows, next_id, clock, last, routed, _ip_cache, fallback_ip>>

\* one turn of the loop: the test of the deadline, get_task_status, the test of
\* the status, and the return or the sleep
Poll ==
    /\ running.op = "wait_for_result"
    /\ LET row == rows[running.task_id]
           turn(event, returned) ==
               [op |-> "wait_for_result", impl |-> running.impl,
                task_id |-> running.task_id, event |-> event, seen |-> row.status,
                returned |-> returned]
       IN  IF ~(clock - running.start_time < running.timeout)
           THEN /\ last' = turn("deadline", FALSE)
                /\ running' = NotRunning
           ELSE IF row = NoRow
           THEN /\ last' = turn("polled", FALSE)
                /\ running' = NotRunning
           ELSE IF row.status \in ReturnStatuses(running.impl)
           THEN /\ last' = turn("polled", TRUE)
                /\ running' = NotRunning
           ELSE /\ last' = turn("polled", FALSE)
                /\ UNCHANGED running
    /\ UNCHANGED <<local_node_id, priority, rows, next_id, clock, routed, _ip_cache, fallback_ip>>

\* time.sleep(0.5), or time passing anywhere else
Sleep ==
    /\ clock < MaxClock
    /\ clock' = clock + 1
    /\ UNCHANGED <<local_node_id, priority, rows, next_id, last, routed, _ip_cache, fallback_ip, running>>

\* a writer of the table gives the row a status while the loop is asleep
WriteStatus(task_id, status) ==
    /\ rows[task_id] # NoRow
    /\ rows[task_id].status \in {"assigned", "running"}
    /\ rows' = _update_task_result(rows, task_id, Update(status, None, None), clock)
    /\ UNCHANGED <<local_node_id, priority, next_id, clock, last, routed, _ip_cache, fallback_ip, running>>

NextWait ==
    \/ \E impl \in {"router", "legacy"}, task_id \in TaskIds, timeout \in 1..MaxClock :
          StartWait(impl, task_id, timeout)
    \/ Poll
    \/ Sleep
    \/ \E task_id \in TaskIds, status \in WrittenStatuses : WriteStatus(task_id, status)

SpecWait == InitWait /\ [][NextWait]_vars

ssh_retries == 2

\* the retry counts given to verify_ssh_connectivity
MaxRetries == 4

\* what the login process of one attempt does
SshOutcomes == {"exit0", "exit_nonzero", "timeout", "oserror"}

InitSsh ==
    /\ local_node_id \in {"mac-studio"}
    /\ priority = ShippedPriority
    /\ InitStore

\* verify_ssh_connectivity(ip, timeout, retries) up to the head of its loop;
\* with range(retries) empty it logs and returns False
StartVerify(retries) ==
    /\ running = NotRunning
    /\ LET n == IF retries = 0 THEN ssh_retries ELSE retries
       IN  /\ running' = IF n = 0 THEN NotRunning
                         ELSE [op |-> "verify_ssh_connectivity", retries |-> n, attempt |-> 0]
           /\ last' = [op |-> "verify_ssh_connectivity", asked |-> retries, events |-> <<>>,
                       returned |-> IF n = 0 THEN "False" ELSE "pending"]
    /\ UNCHANGED <<local_node_id, priority, rows, next_id, clock, routed, _ip_cache, fallback_ip>>

\* one turn of the loop: the login process, the test of its exit code or the
\* except clause, the sleep before the next turn, the return after the last
Attempt(outcome) ==
    /\ running.op = "verify_ssh_connectivity"
    /\ IF outcome = "exit0"
       THEN /\ last' = [last EXCEPT !.events = @ \o <<outcome>>, !.returned = "True"]
            /\ running' = NotRunning
       ELSE IF running.attempt < running.retries - 1
       THEN /\ last' = [last EXCEPT !.events = @ \o <<outcome, "sleep">>]
            /\ running' = [running EXCEPT !.attempt = @ + 1]
       ELSE /\ last' = [last EXCEPT !.events = @ \o <<outcome>>, !.returned = "False"]
            /\ running' = NotRunning
    /\ UNCHANGED <<local_node_id, priority, rows, next_id, clock, routed, _ip_cache, fallback_ip>>

NextSsh ==
    \/ \E retries \in 0..MaxRetries : StartVerify(retries)
    \/ \E outcome \in SshOutcomes : Attempt(outcome)

SpecSsh == InitSsh /\ [][NextSsh]_vars

\* ------------------------------------------------------------ claims' side
\* the positions of the login attempts among the events of the last call
AttemptsAt == {i \in 1..Len(last.events) : last.events[i] # "sleep"}

\* C32: verify_ssh_connectivity with retry count N starts at most N attempts,
\* returns true at the first attempt that exits 0, returns false exactly when
\* all N attempts failed, and sleeps only between two attempts
C32_AtMostNAttempts ==
    last.op = "verify_ssh_connectivity" =>
        /\ Cardinality(AttemptsAt) <= last.asked
        /\ \A i \in 1..(Len(last.events) - 1) : last.events[i] # "exit0"
        /\ last.returned = "True"
              <=> (last.events # <<>> /\ last.events[Len(last.events)] = "exit0")
        /\ last.returned = "False"
              <=> (/\ Cardinality(AttemptsAt) = last.asked
                   /\ \A i \in AttemptsAt : last.events[i] # "exit0")
        /\ \A i \in 1..Len(last.events) :
              last.events[i] = "sleep"
                 => /\ i > 1 /\ last.events[i - 1] # "sleep"
                    /\ last.returned # "pending" => i < Len(last.events)

\* ======================================================================
\* The processes of parallel_execute and get_cluster_status in flight
\* ======================================================================

\* the thread that starts a process stays inside subprocess.run until the
\* process has ended or timed out; after asyncio.create_subprocess_exec it goes
\* on with the next coroutine
BlocksOnProcess(op, impl) == ~(op = "parallel_execute" /\ impl = "router")

\* the number of processes an operation has to start: one for every command,
\* one for every node of CLUSTER_NODES but the local one
FlightSizes(op) ==
    IF op = "parallel_execute" THEN 1..MaxCommands
    ELSE {Cardinality(CLUSTER_NODES \ {local_node_id})}

\* the processes of the call that are running
InFlight == {i \in 1..running.n : running.outcomes[i] = "running"}

InitFlight ==
    /\ local_node_id \in {"mac-studio"}
    /\ priority = ShippedPriority
    /\ InitStore

\* the operation up to its first process: the validation, the local entry
StartCall(op, impl, n) ==
    /\ running = NotRunning
    /\ running' = [op |-> op, impl |-> impl, n |-> n, next |-> 1,
                   outcomes |-> [i \in 1..n |-> "waiting"], in_run |-> 0]
    /\ UNCHANGED <<local_node_id, priority, rows, next_id, clock, last, routed, _ip_cache, fallback_ip>>

\* the code reaches command or peer i: get_node_ip, then the process is started
\* (the older server takes the address from its table and always starts one)
StartProcess(i, resolved) ==
    /\ running.op \in {"parallel_execute", "get_cluster_status"}
    /\ i = running.next
    /\ i <= running.n
    /\ running.in_run = 0
    /\ resolved \/ running.impl = "router"
    /\ running' = [running EXCEPT
                      !.next = i + 1,
                      !.outcomes[i] = IF resolved THEN "running" ELSE "unresolved",
                      !.in_run = IF resolved /\ BlocksOnProcess(running.op, running.impl)
                                 THEN i ELSE 0]
    /\ UNCHANGED <<local_node_id, priority, rows, next_id, clock, last, routed, _ip_cache, fallback_ip>>

\* process i exits, or runs into its timeout and is given up
ProcessEnds(i, how) ==
    /\ running.op \in {"parallel_execute", "get_cluster_status"}
    /\ i \in InFlight
    /\ running' = [running EXCEPT !.outcomes[i] = how,
                                  !.in_run = IF @ = i THEN 0 ELSE @]
    /\ UNCHANGED <<local_node_id, priority, rows, next_id, clock, last, routed, _ip_cache, fallback_ip>>

\* the operation returns once every command or peer has its result
ReturnCall ==
    /\ running.op \in {"parallel_execute", "get_cluster_status"}
    /\ running.next = running.n + 1
    /\ InFlight = {}
    /\ last' = [op |-> running.op, impl |-> running.impl, outcomes |-> running.outcomes]
    /\ running' = NotRunning
    /\ UNCHANGED <<local_node_id, priority, rows, next_id, clock, routed, _ip_cache, fallback_ip>>

NextFlight ==
    \/ \E op \in {"parallel_execute", "get_cluster_status"}, impl \in {"router", "legacy"} :
          \E n \in FlightSizes(op) : StartCall(op, impl, n)
    \/ /\ running.op # "none"
       /\ \E i \in 1..running.n, resolved \in BOOLEAN : StartProcess(i, resolved)
    \/ /\ running.op # "none"
       /\ \E i \in 1..running.n, how \in {"exit", "timeout"} : ProcessEnds(i, how)
    \/ ReturnCall

SpecFlight == InitFlight /\ [][NextFlight]_vars

\* ------------------------------------------------------------ claims' side
\* a command or peer is still to be reached while the thread that has to reach
\* it waits for the process of another one
WaitsForProcess ==
    /\ running.next <= running.n
    /\ running.in_run # 0

\* C33: parallel_execute starts the process of every command without waiting
\* for the process of another command to finish or time out
C33_CommandsStartTogether ==
    running.op = "parallel_execute" => ~WaitsForProcess

\* C34: get_cluster_status starts the probe of every peer without waiting for
\* the probe of another peer to finish or time out
C34_PeersProbedTogether ==
    running.op = "get_cluster_status" => ~WaitsForProcess

\* ======================================================================
\* resolve_hostname and clear_ip_cache in concurrent threads
\* ======================================================================

InitCache == InitResolve

\* resolve_hostname(hostname) up to the test `hostname in _ip_cache`: with the
\* entry there the thread goes on to read it, without it to the four methods
TestCache(hostname, e) ==
    /\ running = NotRunning
    /\ IF hostname \in DOMAIN _ip_cache
       THEN /\ running' = [op |-> "resolve_hostname", hostname |-> hostname, now |-> clock,
                           env |-> e, tested |-> _ip_cache[hostname]]
            /\ UNCHANGED <<last, _ip_cache>>
       ELSE LET r == resolve_hostname(_ip_cache, hostname, clock, e)
            IN  /\ _ip_cache' = r.cache
                /\ last' = [op |-> "resolve_hostname", hostname |-> hostname, exc |-> None,
                            ip |-> r.ip, from_cache |-> FALSE, read |-> << >>]
                /\ UNCHANGED running
    /\ UNCHANGED <<local_node_id, priority, rows, next_id, clock, routed, fallback_ip>>

\* cached_ip, cached_time = _ip_cache[hostname] and the rest of the call: the
\* test of the age, the cached address or the four methods
ReadCache ==
    /\ running.op = "resolve_hostname"
    /\ IF running.hostname \notin DOMAIN _ip_cache
       THEN /\ last' = [op |-> "resolve_hostname", hostname |-> running.hostname,
                        exc |-> "KeyError", ip |-> None, from_cache |-> FALSE, read |-> << >>]
            /\ UNCHANGED _ip_cache
       ELSE LET r == resolve_hostname(_ip_cache, running.hostname, running.now, running.env)
            IN  /\ _ip_cache' = r.cache
                /\ last' = [op |-> "resolve_hostname", hostname |-> running.hostname,
                            exc |-> None, ip |-> r.ip, from_cache |-> r.invoked = {},
                            read |-> _ip_cache[running.hostname]]
    /\ running' = NotRunning
    /\ UNCHANGED <<local_node_id, priority, rows, next_id, clock, routed, fallback_ip>>

\* clear_ip_cache() in another thread
ClearIpCache ==
    /\ DOMAIN _ip_cache # {}
    /\ _ip_cache' = << >>
    /\ UNCHANGED <<local_node_id, priority, rows, next_id, clock, last, routed, fallback_ip, running>>

\* a call of resolve_hostname in another thread that stores an entry
OtherThreadResolves(hostname, e) ==
    /\ _ip_cache' = resolve_hostname(_ip_cache, hostname, clock, e).cache
    /\ _ip_cache' # _ip_cache
    /\ UNCHANGED <<local_node_id, priority, rows, next_id, clock, last, routed, fallback_ip, running>>

NextCache ==
    \/ \E hostname \in Hostnames, e \in HostnameEnvs : TestCache(hostname, e)
    \/ ReadCache
    \/ ClearIpCache
    \/ \E hostname \in Hostnames, e \in HostnameEnvs : OtherThreadResolves(hostname, e)
    \/ Tick

SpecCache == InitCache /\ [][NextCache]_vars

\* ------------------------------------------------------------ claims' side
\* C36: under every interleaving of resolve_hostname with clear_ip_cache and
\* with other writers, resolve_hostname does not fail, and an address it takes
\* from the cache is the address of the entry it read, still young enough
C36_CacheReadAtomic ==
    last.op = "resolve_hostname" =>
        /\ last.exc = None
        /\ last.from_cache => /\ last.read # << >>
                              /\ last.ip = last.read[1]

\* ======================================================================
\* The node the router takes itself for
\* ======================================================================

\* _detect_local_node(): the first node id contained in the lowered hostname;
\* on a host with /Users the node whose fallback address is the local one,
\* else "orchestrator"; on any other host "builder"
_detect_local_node(hostname, users_exists, e) ==
    LET named == {k \in 1..Len(NodeOrder) : Contains(lower(hostname), NodeOrder[k])}
        at_ip == {k \in 1..Len(NodeOrder) :
                     ShippedFallback[NodeOrder[k]] = get_local_lan_ip(e)}
    IN  IF named # {}
        THEN NodeOrder[CHOOSE k \in named : \A j \in named : k <= j]
        ELSE IF users_exists
        THEN IF TruthyStr(get_local_lan_ip(e)) /\ at_ip # {}
             THEN NodeOrder[CHOOSE k \in at_ip : \A j \in at_ip : k <= j]
             ELSE "orchestrator"
        ELSE "builder"

\* socket.gethostname() on the hosts the process is started on
DetectHostnames ==
    {"macpro51", "Mac-Studio.local", "marcs-macbook-air.lan", "ci-runner-7", "Marcs-iMac.local"}

\* DistributedTaskRouter() on any of these hosts
InitDetect ==
    /\ \E hostname \in DetectHostnames, users_exists \in BOOLEAN, e \in LocalWorlds :
          local_node_id = _detect_local_node(hostname, users_exists, e)
    /\ priority = ShippedPriority
    /\ InitStore

NextDetect == \E task_def \in TaskDefs, env \in Envs : SubmitTask(task_def, env)

SpecDetect == InitDetect /\ [][NextDetect]_vars

\* ------------------------------------------------------------ claims' side
\* C40: local_node_id is a key of the node map, so the anti-local penalty of
\* _route_task meets exactly one candidate, and a task routed to the host the
\* router runs on goes to _execute_local
C40_LocalNodeIsConfigured ==
    /\ local_node_id \in CLUSTER_NODES
    /\ Cardinality({n \in CLUSTER_NODES : n = local_node_id}) = 1
    /\ \A task_def \in TaskDefs :
          SubmitTarget(task_def) = get_node(local_node_id)
              => SubmitTarget(task_def) = local_node_id

====
